---- MODULE Spec2Model ----
(***************************************************************************)
(* LogAid: the diagnosis engine (plugin registry walk, generative          *)
(* fallback) and the execution monitor (run, diagnose, confirm, re-run).   *)
(* Strings are TLA+ strings; the Go string functions the code calls are    *)
(* defined on their characters.                                            *)
(***************************************************************************)
EXTENDS Integers, Sequences, FiniteSets, TLC

\* The element of a one-element set.  The({e(v) : v \in {x}}) is e(x) with x
\* evaluated once, whatever the number of occurrences of v in e.
The(S) ==
    CHOOSE x \in S : TRUE

(***************************************************************************)
(* Go "strings" package, as used by the plugins and the engine.            *)
(***************************************************************************)
UpperToLower ==
    ("A" :> "a") @@ ("B" :> "b") @@ ("C" :> "c") @@ ("D" :> "d") @@ ("E" :> "e")
 @@ ("F" :> "f") @@ ("G" :> "g") @@ ("H" :> "h") @@ ("I" :> "i") @@ ("J" :> "j")
 @@ ("K" :> "k") @@ ("L" :> "l") @@ ("M" :> "m") @@ ("N" :> "n") @@ ("O" :> "o")
 @@ ("P" :> "p") @@ ("Q" :> "q") @@ ("R" :> "r") @@ ("S" :> "s") @@ ("T" :> "t")
 @@ ("U" :> "u") @@ ("V" :> "v") @@ ("W" :> "w") @@ ("X" :> "x") @@ ("Y" :> "y")
 @@ ("Z" :> "z")

\* the character of s at position i
At(s, i) ==
    SubSeq(s, i, i)

\* the characters a..b of s in lower case, by halves
RECURSIVE LowerRange(_, _, _)
LowerRange(s, a, b) ==
    IF a > b THEN ""
    ELSE IF a = b
    THEN The({ IF c \in DOMAIN UpperToLower THEN UpperToLower[c] ELSE c : c \in {At(s, a)} })
    ELSE The({ LowerRange(s, a, m) \o LowerRange(s, m + 1, b) : m \in {(a + b) \div 2} })

ToLower(s) ==
    The({ LowerRange(v, 1, Len(v)) : v \in {s} })

IsSpace(c) ==
    c \in {" ", "\t", "\n", "\r"}

HasPrefix(s, prefix) ==
    \E v \in {s}, p \in {prefix} :
        Len(p) <= Len(v) /\ SubSeq(v, 1, Len(p)) = p

HasSuffix(s, suffix) ==
    \E v \in {s}, p \in {suffix} :
        Len(p) <= Len(v) /\ SubSeq(v, Len(v) - Len(p) + 1, Len(v)) = p

TrimSuffix(s, suffix) ==
    The({ IF HasSuffix(v, suffix) THEN SubSeq(v, 1, Len(v) - Len(suffix)) ELSE v :
          v \in {s} })

\* the least element of a non-empty set of integers, 0 for the empty set
Least(S) ==
    The({ IF T = {} THEN 0 ELSE CHOOSE i \in T : \A j \in T : i <= j : T \in {S} })

\* strings.Index on s[from..], as a 1-based position in s; 0 when substr does not occur
IndexFrom(s, substr, from) ==
    The({ Least({i \in from..(Len(v) - Len(p) + 1) : SubSeq(v, i, i + Len(p) - 1) = p}) :
          v \in {s}, p \in {substr} })

Index(s, substr) ==
    IndexFrom(s, substr, 1)

Contains(s, substr) ==
    Index(s, substr) # 0

\* strings.Replace(s, old, new, 1)
Replace(s, old, new) ==
    The({ IF i = 0 THEN v
          ELSE SubSeq(v, 1, i - 1) \o new \o SubSeq(v, i + Len(old), Len(v)) :
          v \in {s}, i \in {Index(s, old)} })

TrimSpace(s) ==
    The({ The({ IF kept = {} THEN ""
                ELSE SubSeq(v, Least(kept), Len(v) + 1 - Least({Len(v) + 1 - i : i \in kept})) :
                kept \in {{i \in 1..Len(v) : ~IsSpace(At(v, i))}} }) :
          v \in {s} })

\* strings.Fields: the maximal runs of non-space characters, in order
Fields(s) ==
    The({ The({ [k \in 1..Cardinality(starts) |->
                   The({ SubSeq(v, i, Least({e \in i..Len(v) :
                                               e = Len(v) \/ IsSpace(At(v, e + 1))})) :
                         i \in {j \in starts : Cardinality({h \in starts : h < j}) = k - 1} })] :
                starts \in {{i \in 1..Len(v) :
                               ~IsSpace(At(v, i)) /\ (i = 1 \/ IsSpace(At(v, i - 1)))}} }) :
          v \in {s} })

RECURSIVE SplitFrom(_, _, _)
SplitFrom(s, sep, from) ==
    The({ IF i = 0 THEN << SubSeq(s, from, Len(s)) >>
          ELSE << SubSeq(s, from, i - 1) >> \o SplitFrom(s, sep, n) :
          i \in {IndexFrom(s, sep, from)}, n \in {IndexFrom(s, sep, from) + Len(sep)} })

\* strings.Split(s, sep) for a non-empty separator
Split(s, sep) ==
    The({ SplitFrom(v, p, 1) : v \in {s}, p \in {sep} })

RECURSIVE JoinFrom(_, _, _)
JoinFrom(parts, sep, k) ==
    IF k > Len(parts) THEN ""
    ELSE IF k = Len(parts) THEN parts[k]
    ELSE The({ parts[k] \o sep \o JoinFrom(parts, sep, n) : n \in {k + 1} })

Join(parts, sep) ==
    The({ JoinFrom(v, sep, 1) : v \in {parts} })


(***************************************************************************)
(* plugins package: the Plugin interface helpers and the six plugins.      *)
(***************************************************************************)
containsAny(text, patterns) ==
    \E pattern \in patterns : Contains(ToLower(text), ToLower(pattern))

\* first index of parts among hits, 0 when there is none  (for i, part := range parts)
FirstIndex(hits) ==
    Least(hits)

Lookup(table, key) ==
    IF key \in DOMAIN table THEN table[key] ELSE ""

\* ----------------------------- apt ---------------------------------------
aptErrors ==
    { "unable to locate package", "package not found", "e: could not get lock",
      "e: package", "has no installation candidate", "depends:",
      "unmet dependencies", "permission denied", "command not found",
      "broken packages", "held broken packages", "404 not found",
      "signature verification failed", "repository does not have a release file" }

AptPlugin_Match(cmd, output) ==
    /\ Contains(ToLower(cmd), "apt")
    /\ containsAny(output, aptErrors)

aptCorrections ==
       ("rediscli" :> "redis-tools")
    @@ ("redis-cli" :> "redis-tools")
    @@ ("redisclient" :> "redis-tools")
    @@ ("mysql" :> "mysql-server")
    @@ ("mysqlserver" :> "mysql-server")
    @@ ("nodejs" :> "nodejs npm")
    @@ ("node" :> "nodejs npm")
    @@ ("python" :> "python3")
    @@ ("pip" :> "python3-pip")
    @@ ("python-pip" :> "python3-pip")
    @@ ("docker" :> "docker.io")
    @@ ("dockerio" :> "docker.io")
    @@ ("java" :> "openjdk-11-jdk")
    @@ ("jdk" :> "openjdk-11-jdk")
    @@ ("gcc" :> "build-essential")
    @@ ("make" :> "build-essential")
    @@ ("cmake" :> "cmake build-essential")
    @@ ("vim" :> "vim-gtk3")
    @@ ("emacs" :> "emacs-gtk")
    @@ ("firefox" :> "firefox-esr")
    @@ ("chrome" :> "google-chrome-stable")
    @@ ("chromium" :> "chromium-browser")
    @@ ("vscode" :> "code")
    @@ ("visualstudio" :> "code")
    @@ ("git" :> "git-all")
    @@ ("curl" :> "curl wget")
    @@ ("ssh" :> "openssh-client openssh-server")
    @@ ("sshd" :> "openssh-server")
    @@ ("nginx" :> "nginx-full")
    @@ ("apache" :> "apache2")
    @@ ("httpd" :> "apache2")
    @@ ("postgres" :> "postgresql postgresql-contrib")
    @@ ("postgresql" :> "postgresql postgresql-contrib")
    @@ ("sqlite" :> "sqlite3")
    @@ ("htop" :> "htop")
    @@ ("top" :> "htop")
    @@ ("nano" :> "nano")
    @@ ("unzip" :> "unzip zip")
    @@ ("tar" :> "tar gzip")
    @@ ("screen" :> "screen tmux")
    @@ ("tmux" :> "tmux")
    @@ ("tree" :> "tree")
    @@ ("less" :> "less")
    @@ ("jq" :> "jq")
    @@ ("net-tools" :> "net-tools")
    @@ ("ifconfig" :> "net-tools")
    @@ ("netstat" :> "net-tools")
    @@ ("telnet" :> "telnet")
    @@ ("ftp" :> "ftp")
    @@ ("rsync" :> "rsync")
    @@ ("scp" :> "openssh-client")

\* bug: the table is looked up with the whole command
AptPlugin_getPackageCorrection_wrongKey(packageName) ==
    Lookup(aptCorrections, "install " \o ToLower(packageName))

AptPlugin_getPackageCorrection(packageName) ==
    Lookup(aptCorrections, ToLower(packageName))

AptPlugin_getQuickFix(cmd, output) ==
    LET outputLower == ToLower(output)
        parts == Fields(cmd)
        hit(i) == /\ parts[i] \in {"install", "show", "search"}
                  /\ i + 1 <= Len(parts)
                  /\ AptPlugin_getPackageCorrection(parts[i + 1]) # ""
        i == FirstIndex({h \in 1..Len(parts) : hit(h)})
    IN  IF Contains(outputLower, "could not get lock")
        THEN "sudo killall apt apt-get dpkg && sudo dpkg --configure -a && sudo apt update && " \o cmd
        ELSE IF Contains(outputLower, "permission denied") /\ ~Contains(cmd, "sudo")
        THEN "sudo " \o cmd
        ELSE IF Contains(outputLower, "404") \/ Contains(outputLower, "failed to fetch")
        THEN "sudo apt update && " \o cmd
        ELSE IF Contains(outputLower, "unable to locate package") /\ i # 0
        THEN Replace(cmd, parts[i + 1], AptPlugin_getPackageCorrection(parts[i + 1]))
        ELSE ""

\* ----------------------------- npm ---------------------------------------
npmErrors ==
    { "unknown command:", "npm err! 404", "not found", "eacces: permission denied",
      "network request", "enotfound", "timeout", "npm err! missing script:",
      "cannot resolve dependency:", "peer dep warning", "deprecated warning",
      "audit found", "vulnerabilities found", "npm err! code enoent",
      "npm err! errno -4058", "npm err! path", "operation not permitted" }

NpmPlugin_Match(cmd, output) ==
    /\ Contains(ToLower(cmd), "npm")
    /\ containsAny(output, npmErrors)

npmCorrections ==
       ("instal" :> "install")
    @@ ("instll" :> "install")
    @@ ("insall" :> "install")
    @@ ("isntall" :> "install")
    @@ ("instlal" :> "install")
    @@ ("intall" :> "install")
    @@ ("i" :> "install")
    @@ ("stat" :> "start")
    @@ ("strt" :> "start")
    @@ ("str" :> "start")
    @@ ("tes" :> "test")
    @@ ("tst" :> "test")
    @@ ("ru" :> "run")
    @@ ("rn" :> "run")
    @@ ("updat" :> "update")
    @@ ("updte" :> "update")
    @@ ("upgrd" :> "upgrade")
    @@ ("uninsta" :> "uninstall")
    @@ ("uninstal" :> "uninstall")
    @@ ("remove" :> "uninstall")
    @@ ("rm" :> "uninstall")
    @@ ("lst" :> "list")
    @@ ("ls" :> "list")
    @@ ("info" :> "info")
    @@ ("inf" :> "info")
    @@ ("view" :> "view")
    @@ ("vw" :> "view")
    @@ ("search" :> "search")
    @@ ("find" :> "search")
    @@ ("audit" :> "audit")
    @@ ("audt" :> "audit")
    @@ ("outdated" :> "outdated")
    @@ ("outdate" :> "outdated")
    @@ ("init" :> "init")
    @@ ("int" :> "init")
    @@ ("publish" :> "publish")
    @@ ("pub" :> "publish")
    @@ ("unpublish" :> "unpublish")
    @@ ("version" :> "version")
    @@ ("ver" :> "version")
    @@ ("link" :> "link")
    @@ ("lnk" :> "link")
    @@ ("unlink" :> "unlink")
    @@ ("config" :> "config")
    @@ ("conf" :> "config")
    @@ ("cache" :> "cache")
    @@ ("chche" :> "cache")

NpmPlugin_correctNpmCommand(cmd) ==
    LET parts == Fields(cmd)
    IN  IF Len(parts) >= 2 /\ parts[2] \in DOMAIN npmCorrections
        THEN Join([parts EXCEPT ![2] = npmCorrections[parts[2]]], " ")
        ELSE cmd

npmPackageCorrections ==
       ("expres" :> "express")
    @@ ("exprees" :> "express")
    @@ ("expresss" :> "express")
    @@ ("lodas" :> "lodash")
    @@ ("lodsh" :> "lodash")
    @@ ("lodassh" :> "lodash")
    @@ ("reac" :> "react")
    @@ ("react" :> "react")
    @@ ("reactt" :> "react")
    @@ ("axio" :> "axios")
    @@ ("axois" :> "axios")
    @@ ("axioss" :> "axios")
    @@ ("momen" :> "moment")
    @@ ("momnet" :> "moment")
    @@ ("momentt" :> "moment")
    @@ ("nod-fetch" :> "node-fetch")
    @@ ("node-fech" :> "node-fetch")
    @@ ("nodefetch" :> "node-fetch")
    @@ ("cheerio" :> "cheerio")
    @@ ("cherio" :> "cheerio")
    @@ ("cheeio" :> "cheerio")
    @@ ("socket.i" :> "socket.io")
    @@ ("socketio" :> "socket.io")
    @@ ("socket-io" :> "socket.io")
    @@ ("uuid" :> "uuid")
    @@ ("uui" :> "uuid")
    @@ ("uuuid" :> "uuid")
    @@ ("bcryp" :> "bcrypt")
    @@ ("bcrypt" :> "bcrypt")
    @@ ("bcryptjs" :> "bcryptjs")
    @@ ("jsonwebtoken" :> "jsonwebtoken")
    @@ ("jwt" :> "jsonwebtoken")
    @@ ("mongoose" :> "mongoose")
    @@ ("mongose" :> "mongoose")
    @@ ("mungoose" :> "mongoose")
    @@ ("sequelize" :> "sequelize")
    @@ ("sequlize" :> "sequelize")
    @@ ("sequeize" :> "sequelize")
    @@ ("cors" :> "cors")
    @@ ("cor" :> "cors")
    @@ ("corss" :> "cors")
    @@ ("helmet" :> "helmet")
    @@ ("helmt" :> "helmet")
    @@ ("helnet" :> "helmet")
    @@ ("morgan" :> "morgan")
    @@ ("morga" :> "morgan")
    @@ ("morganr" :> "morgan")
    @@ ("nodemon" :> "nodemon")
    @@ ("nodmon" :> "nodemon")
    @@ ("nodemn" :> "nodemon")
    @@ ("pm2" :> "pm2")
    @@ ("pm" :> "pm2")
    @@ ("dotenv" :> "dotenv")
    @@ ("dotev" :> "dotenv")
    @@ ("dontenv" :> "dotenv")
    @@ ("chalk" :> "chalk")
    @@ ("chlk" :> "chalk")
    @@ ("chalck" :> "chalk")
    @@ ("commander" :> "commander")
    @@ ("comander" :> "commander")
    @@ ("comandr" :> "commander")
    @@ ("inquirer" :> "inquirer")
    @@ ("inquierer" :> "inquirer")
    @@ ("inquirr" :> "inquirer")
    @@ ("fs-extra" :> "fs-extra")
    @@ ("fs-ext" :> "fs-extra")
    @@ ("fsextra" :> "fs-extra")
    @@ ("glob" :> "glob")
    @@ ("globb" :> "glob")
    @@ ("globo" :> "glob")
    @@ ("rimraf" :> "rimraf")
    @@ ("rimaf" :> "rimraf")
    @@ ("rmraf" :> "rimraf")

NpmPlugin_correctPackageName(cmd, output) ==
    LET parts == Fields(cmd)
        cleanPackage(i) == Split(parts[i + 1], "@")[1]
        hit(i) == /\ parts[i] \in {"install", "i"}
                  /\ i + 1 <= Len(parts)
                  /\ cleanPackage(i) \in DOMAIN npmPackageCorrections
        i == FirstIndex({h \in 1..Len(parts) : hit(h)})
    IN  IF i # 0
        THEN Join([parts EXCEPT ![i + 1] =
                     Replace(parts[i + 1], cleanPackage(i),
                             npmPackageCorrections[cleanPackage(i)])], " ")
        ELSE cmd

commonScripts ==
    << "start", "dev", "build", "test", "lint", "serve", "watch", "deploy",
       "production", "development", "server", "client", "clean", "install",
       "update", "postinstall", "preinstall", "prebuild", "postbuild",
       "prestart", "poststart", "pretest", "posttest" >>

NpmPlugin_suggestScriptCommand(cmd, output) ==
    LET parts == Fields(cmd)
        similar(k) == \/ Contains(commonScripts[k], parts[3])
                      \/ Contains(parts[3], commonScripts[k])
        k == IF Len(parts) >= 3 /\ parts[2] = "run"
             THEN FirstIndex({h \in 1..Len(commonScripts) : similar(h)}) ELSE 0
    IN  IF k # 0
        THEN Join([parts EXCEPT ![3] = commonScripts[k]], " ")
        ELSE "npm run-script --help # List available scripts"

NpmPlugin_getQuickFix(cmd, output) ==
    LET outputLower == ToLower(output)
    IN  IF /\ Contains(outputLower, "eacces") \/ Contains(outputLower, "permission denied")
           /\ Contains(cmd, "-g") /\ ~Contains(cmd, "sudo")
        THEN "sudo " \o cmd
        ELSE IF Contains(outputLower, "unknown command:")
        THEN NpmPlugin_correctNpmCommand(cmd)
        ELSE IF Contains(outputLower, "404") /\ Contains(outputLower, "not found")
        THEN NpmPlugin_correctPackageName(cmd, output)
        ELSE IF Contains(outputLower, "missing script:")
        THEN NpmPlugin_suggestScriptCommand(cmd, output)
        ELSE ""

\* ----------------------------- git ---------------------------------------
errorPatterns ==
    { "git: command not found", "is not a git command", "unknown option",
      "invalid command", "not a git repository", "pathspec",
      "did not match any file", "fatal:", "error:" }

\* bug: the command is not looked at
GitPlugin_Match_anyCommand(cmd, output) ==
    containsAny(output, errorPatterns)

GitPlugin_Match(cmd, output) ==
    /\ HasPrefix(cmd, "git ")
    /\ containsAny(output, errorPatterns)

commandCorrections ==
       ("checout" :> "checkout")
    @@ ("checkuot" :> "checkout")
    @@ ("chekout" :> "checkout")
    @@ ("committ" :> "commit")
    @@ ("comit" :> "commit")
    @@ ("stauts" :> "status")
    @@ ("stats" :> "status")
    @@ ("stat" :> "status")
    @@ ("brach" :> "branch")
    @@ ("branc" :> "branch")
    @@ ("branh" :> "branch")
    @@ ("pul" :> "pull")
    @@ ("pus" :> "push")
    @@ ("pussh" :> "push")
    @@ ("fetch" :> "fetch")
    @@ ("merg" :> "merge")
    @@ ("merge" :> "merge")
    @@ ("rebase" :> "rebase")
    @@ ("rebas" :> "rebase")
    @@ ("clon" :> "clone")
    @@ ("cloen" :> "clone")
    @@ ("ad" :> "add")
    @@ ("remot" :> "remote")
    @@ ("reste" :> "reset")
    @@ ("resett" :> "reset")
    @@ ("dif" :> "diff")
    @@ ("lo" :> "log")
    @@ ("sho" :> "show")
    @@ ("tag" :> "tag")
    @@ ("stash" :> "stash")
    @@ ("stas" :> "stash")

GitPlugin_Suggest(cmd, output) ==
    LET parts == Fields(cmd)
        co(i) == parts[i] = "checkout" /\ i + 1 <= Len(parts)
        i == FirstIndex({h \in 1..Len(parts) : co(h)})
    IN  IF Len(parts) < 2 THEN ""
        ELSE IF parts[2] \in DOMAIN commandCorrections
        THEN Replace(cmd, "git " \o parts[2], "git " \o commandCorrections[parts[2]])
        ELSE IF Contains(output, "not a git repository")
        THEN "git init"
        ELSE IF Contains(output, "pathspec") /\ Contains(output, "did not match")
        THEN "git branch -a"
        ELSE IF Contains(cmd, "checkout") /\ Contains(output, "pathspec") /\ i # 0
        THEN "git checkout -b " \o parts[i + 1]
        ELSE ""

\* ----------------------------- docker ------------------------------------
dockerErrors ==
    { "unable to find image", "is not a docker command",
      "permission denied while trying to connect to the docker daemon",
      "cannot connect to the docker daemon", "docker daemon not running",
      "no such container", "no such image", "error response from daemon",
      "pull access denied", "repository does not exist", "unauthorized",
      "manifest unknown", "tag does not exist" }

DockerPlugin_Match(cmd, output) ==
    /\ Contains(ToLower(cmd), "docker")
    /\ containsAny(output, dockerErrors)

dockerCorrections ==
       ("ru" :> "run")
    @@ ("rn" :> "run")
    @@ ("buil" :> "build")
    @@ ("buid" :> "build")
    @@ ("pul" :> "pull")
    @@ ("pll" :> "pull")
    @@ ("pus" :> "push")
    @@ ("psh" :> "push")
    @@ ("exe" :> "exec")
    @@ ("exec" :> "exec")
    @@ ("p" :> "ps")
    @@ ("log" :> "logs")
    @@ ("stp" :> "stop")
    @@ ("stop" :> "stop")
    @@ ("stat" :> "start")
    @@ ("strt" :> "start")
    @@ ("rm" :> "rm")
    @@ ("rmi" :> "rmi")
    @@ ("img" :> "images")
    @@ ("image" :> "images")
    @@ ("net" :> "network")
    @@ ("vol" :> "volume")
    @@ ("cp" :> "cp")
    @@ ("insp" :> "inspect")
    @@ ("inspt" :> "inspect")

DockerPlugin_correctDockerCommand(cmd) ==
    LET parts == Fields(cmd)
    IN  IF Len(parts) >= 2 /\ parts[2] \in DOMAIN dockerCorrections
        THEN Join([parts EXCEPT ![2] = dockerCorrections[parts[2]]], " ")
        ELSE cmd

imageCorrections ==
       ("ubntu" :> "ubuntu")
    @@ ("ubunt" :> "ubuntu")
    @@ ("ubunut" :> "ubuntu")
    @@ ("ngnix" :> "nginx")
    @@ ("ngin" :> "nginx")
    @@ ("nginc" :> "nginx")
    @@ ("alpin" :> "alpine")
    @@ ("alpne" :> "alpine")
    @@ ("redi" :> "redis")
    @@ ("redis" :> "redis")
    @@ ("rediss" :> "redis")
    @@ ("postgre" :> "postgres")
    @@ ("postgrs" :> "postgres")
    @@ ("postgresql" :> "postgres")
    @@ ("mysq" :> "mysql")
    @@ ("mysl" :> "mysql")
    @@ ("mysql" :> "mysql")
    @@ ("mong" :> "mongo")
    @@ ("mongo" :> "mongo")
    @@ ("mongod" :> "mongo")
    @@ ("node" :> "node")
    @@ ("nodejs" :> "node")
    @@ ("pythn" :> "python")
    @@ ("pythno" :> "python")
    @@ ("pyhton" :> "python")
    @@ ("centso" :> "centos")
    @@ ("cenot" :> "centos")
    @@ ("deban" :> "debian")
    @@ ("debain" :> "debian")
    @@ ("fedra" :> "fedora")
    @@ ("fedro" :> "fedora")
    @@ ("archlinx" :> "archlinux")
    @@ ("arch" :> "archlinux")

\* The Go map is ranged over in an unspecified order: every key that occurs in
\* the output can be the one the loop meets first, so the result is a set.
DockerPlugin_correctImageName(cmd, output) ==
    LET found == {typo \in DOMAIN imageCorrections : Contains(ToLower(output), typo)}
    IN  IF found = {} THEN {cmd}
        ELSE {Replace(cmd, typo, imageCorrections[typo]) : typo \in found}

DockerPlugin_getQuickFix(cmd, output) ==
    LET outputLower == ToLower(output)
    IN  IF Contains(outputLower, "permission denied") /\ ~Contains(cmd, "sudo")
        THEN {"sudo " \o cmd}
        ELSE IF Contains(outputLower, "cannot connect to the docker daemon")
        THEN {"sudo systemctl start docker && " \o cmd}
        ELSE IF Contains(outputLower, "is not a docker command")
        THEN {DockerPlugin_correctDockerCommand(cmd)}
        ELSE IF Contains(outputLower, "unable to find image")
        THEN DockerPlugin_correctImageName(cmd, output)
        ELSE {""}

\* ----------------------------- pip ---------------------------------------
pipErrors ==
    { "no such option:", "unknown command", "could not find a version",
      "no matching distribution found", "permission denied",
      "externally-managed-environment", "pip: command not found",
      "error: could not install packages", "certificate verify failed",
      "connection error", "timeout", "requirement already satisfied",
      "syntax error in requirements", "invalid requirement",
      "pip is being invoked by an old script" }

PipPlugin_Match(cmd, output) ==
    /\ Contains(ToLower(cmd), "pip")
    /\ containsAny(output, pipErrors)

pipPackageCorrections ==
       ("beautifulsoup" :> "beautifulsoup4")
    @@ ("bs4" :> "beautifulsoup4")
    @@ ("beautiful-soup" :> "beautifulsoup4")
    @@ ("request" :> "requests")
    @@ ("requets" :> "requests")
    @@ ("reqeusts" :> "requests")
    @@ ("numpy" :> "numpy")
    @@ ("numpi" :> "numpy")
    @@ ("numpyy" :> "numpy")
    @@ ("pandas" :> "pandas")
    @@ ("panda" :> "pandas")
    @@ ("pandass" :> "pandas")
    @@ ("matplotlib" :> "matplotlib")
    @@ ("matplot" :> "matplotlib")
    @@ ("matplotlb" :> "matplotlib")
    @@ ("scipy" :> "scipy")
    @@ ("scipi" :> "scipy")
    @@ ("scypy" :> "scipy")
    @@ ("scikit-learn" :> "scikit-learn")
    @@ ("sklearn" :> "scikit-learn")
    @@ ("scikit" :> "scikit-learn")
    @@ ("tensorflow" :> "tensorflow")
    @@ ("tensorflw" :> "tensorflow")
    @@ ("tensoflow" :> "tensorflow")
    @@ ("torch" :> "torch")
    @@ ("pytorch" :> "torch")
    @@ ("pyyaml" :> "pyyaml")
    @@ ("yaml" :> "pyyaml")
    @@ ("yml" :> "pyyaml")
    @@ ("flask" :> "flask")
    @@ ("flsk" :> "flask")
    @@ ("flaskk" :> "flask")
    @@ ("django" :> "django")
    @@ ("djnago" :> "django")
    @@ ("djangoo" :> "django")
    @@ ("fastapi" :> "fastapi")
    @@ ("fastap" :> "fastapi")
    @@ ("fast-api" :> "fastapi")
    @@ ("sqlalchemy" :> "sqlalchemy")
    @@ ("sqlalchmy" :> "sqlalchemy")
    @@ ("sql-alchemy" :> "sqlalchemy")
    @@ ("pillow" :> "pillow")
    @@ ("pil" :> "pillow")
    @@ ("pillw" :> "pillow")
    @@ ("opencv-python" :> "opencv-python")
    @@ ("opencv" :> "opencv-python")
    @@ ("cv2" :> "opencv-python")
    @@ ("jupyter" :> "jupyter")
    @@ ("jupytr" :> "jupyter")
    @@ ("jupyterr" :> "jupyter")
    @@ ("ipython" :> "ipython")
    @@ ("ipythoon" :> "ipython")
    @@ ("py-python" :> "ipython")
    @@ ("pytz" :> "pytz")
    @@ ("pyttz" :> "pytz")
    @@ ("timezone" :> "pytz")
    @@ ("dateutil" :> "python-dateutil")
    @@ ("python-dateutil" :> "python-dateutil")
    @@ ("date-util" :> "python-dateutil")
    @@ ("click" :> "click")
    @@ ("clik" :> "click")
    @@ ("clickk" :> "click")
    @@ ("setuptools" :> "setuptools")
    @@ ("setup-tools" :> "setuptools")
    @@ ("setuptool" :> "setuptools")
    @@ ("wheel" :> "wheel")
    @@ ("whel" :> "wheel")
    @@ ("wheell" :> "wheel")
    @@ ("virtualenv" :> "virtualenv")
    @@ ("virtual-env" :> "virtualenv")
    @@ ("venv" :> "virtualenv")
    @@ ("pipenv" :> "pipenv")
    @@ ("pip-env" :> "pipenv")
    @@ ("pipenev" :> "pipenv")

PipPlugin_correctPackageName(cmd) ==
    LET parts == Fields(cmd)
        cleanPackage(i) ==
            Split(Split(Split(Split(Split(Split(parts[i + 1],
                "==")[1], ">=")[1], "<=")[1], ">")[1], "<")[1], "!=")[1]
        hit(i) == /\ parts[i] = "install"
                  /\ i + 1 <= Len(parts)
                  /\ cleanPackage(i) \in DOMAIN pipPackageCorrections
        i == FirstIndex({h \in 1..Len(parts) : hit(h)})
    IN  IF i # 0
        THEN Join([parts EXCEPT ![i + 1] =
                     Replace(parts[i + 1], cleanPackage(i),
                             pipPackageCorrections[cleanPackage(i)])], " ")
        ELSE cmd

PipPlugin_getQuickFix(cmd, output) ==
    LET outputLower == ToLower(output)
    IN  IF Contains(outputLower, "pip: command not found")
        THEN "sudo apt install python3-pip && " \o Replace(cmd, "pip", "pip3")
        ELSE IF /\ Contains(outputLower, "permission denied")
                /\ ~Contains(cmd, "--user") /\ ~Contains(cmd, "sudo")
        THEN cmd \o " --user"
        ELSE IF Contains(outputLower, "externally-managed-environment")
        THEN cmd \o " --break-system-packages # or use: python3 -m venv myenv && source myenv/bin/activate && " \o cmd
        ELSE IF \/ Contains(outputLower, "could not find a version")
                \/ Contains(outputLower, "no matching distribution")
        THEN PipPlugin_correctPackageName(cmd)
        ELSE IF Contains(cmd, "pip ") /\ ~Contains(cmd, "pip3")
        THEN Replace(cmd, "pip ", "pip3 ")
        ELSE ""

\* ----------------------------- systemctl ---------------------------------
systemctlErrors ==
    { "unit not found", "failed to start", "failed to stop", "failed to restart",
      "failed to reload", "permission denied", "authentication required",
      "could not find", "unknown operation", "invalid option",
      "unit file not found", "masked unit", "inactive unit", "job failed" }

SystemctlPlugin_Match(cmd, output) ==
    /\ Contains(ToLower(cmd), "systemctl")
    /\ containsAny(output, systemctlErrors)

serviceCorrections ==
       ("apache" :> "apache2")
    @@ ("httpd" :> "apache2")
    @@ ("nginx" :> "nginx")
    @@ ("ngnix" :> "nginx")
    @@ ("docker" :> "docker")
    @@ ("dockerd" :> "docker")
    @@ ("mysql" :> "mysql")
    @@ ("mariadb" :> "mariadb")
    @@ ("postgresql" :> "postgresql")
    @@ ("postgres" :> "postgresql")
    @@ ("redis" :> "redis-server")
    @@ ("redis-srv" :> "redis-server")
    @@ ("ssh" :> "ssh")
    @@ ("sshd" :> "ssh")
    @@ ("openssh" :> "ssh")
    @@ ("network" :> "networking")
    @@ ("net" :> "networking")
    @@ ("firewall" :> "ufw")
    @@ ("iptables" :> "iptables")
    @@ ("cron" :> "cron")
    @@ ("crond" :> "cron")
    @@ ("systemd" :> "systemd")
    @@ ("dbus" :> "dbus")
    @@ ("avahi" :> "avahi-daemon")
    @@ ("bluetooth" :> "bluetooth")
    @@ ("cups" :> "cups")
    @@ ("printer" :> "cups")

SystemctlPlugin_correctServiceName(cmd) ==
    LET parts == Fields(cmd)
        cleanService == TrimSuffix(parts[3], ".service")
    IN  IF Len(parts) >= 3 /\ cleanService \in DOMAIN serviceCorrections
        THEN Join([parts EXCEPT ![3] = serviceCorrections[cleanService] \o ".service"], " ")
        ELSE IF Len(parts) >= 3 /\ ~HasSuffix(parts[3], ".service")
        THEN Join([parts EXCEPT ![3] = cleanService \o ".service"], " ")
        ELSE cmd

SystemctlPlugin_getQuickFix(cmd, output) ==
    LET outputLower == ToLower(output)
        parts == Fields(cmd)
    IN  IF /\ \/ Contains(outputLower, "permission denied")
              \/ Contains(outputLower, "authentication required")
           /\ ~Contains(cmd, "sudo")
        THEN "sudo " \o cmd
        ELSE IF Contains(outputLower, "unit not found") \/ Contains(outputLower, "could not find")
        THEN SystemctlPlugin_correctServiceName(cmd)
        ELSE IF Contains(outputLower, "masked unit") /\ Len(parts) >= 3
        THEN "sudo systemctl unmask " \o parts[3] \o " && " \o cmd
        ELSE ""

knownPlugins ==
    << "apt", "npm", "git", "docker", "pip", "systemctl" >>

\* plugin.Match, dispatched on the plugin's name
Match(plugin, cmd, output) ==
    CASE plugin = "apt"       -> AptPlugin_Match(cmd, output)
      [] plugin = "npm"       -> NpmPlugin_Match(cmd, output)
      [] plugin = "git"       -> GitPlugin_Match(cmd, output)
      [] plugin = "docker"    -> DockerPlugin_Match(cmd, output)
      [] plugin = "pip"       -> PipPlugin_Match(cmd, output)
      [] plugin = "systemctl" -> SystemctlPlugin_Match(cmd, output)

\* the results the plugin's rules can produce ("" = no rule applied); git has
\* no getQuickFix, its whole Suggest is rule based
getQuickFix(plugin, cmd, output) ==
    CASE plugin = "apt"       -> {AptPlugin_getQuickFix(cmd, output)}
      [] plugin = "npm"       -> {NpmPlugin_getQuickFix(cmd, output)}
      [] plugin = "git"       -> {GitPlugin_Suggest(cmd, output)}
      [] plugin = "docker"    -> DockerPlugin_getQuickFix(cmd, output)
      [] plugin = "pip"       -> {PipPlugin_getQuickFix(cmd, output)}
      [] plugin = "systemctl" -> {SystemctlPlugin_getQuickFix(cmd, output)}

\* the text getAISuggestion returns when ai.GetSuggestion fails
genericSuggestion(plugin, cmd) ==
    CASE plugin = "apt"       -> "sudo apt update && apt search <package-name> && " \o cmd
      [] plugin = "npm"       -> "npm --help # Check the correct NPM command syntax"
      [] plugin = "docker"    -> "docker --help # Check the correct Docker command syntax"
      [] plugin = "pip"       -> "pip3 --help # Check the correct pip command syntax"
      [] plugin = "systemctl" -> "systemctl --help # Check the correct systemctl command syntax"

\* does Suggest go on to getAISuggestion after the rules returned quickFix
callsAI(plugin, quickFix) ==
    plugin # "git" /\ quickFix = ""

\* getAISuggestion, given what ai.GetSuggestion returned
getAISuggestion(plugin, cmd, ai) ==
    IF ai.err # "nil" THEN genericSuggestion(plugin, cmd) ELSE ai.text

\* plugin.Suggest, given the rule result and (when it is called) the backend's answer
Suggest(plugin, cmd, quickFix, ai) ==
    IF callsAI(plugin, quickFix) THEN getAISuggestion(plugin, cmd, ai) ELSE quickFix

(***************************************************************************)
(* config and plugins.LoadAllPlugins                                       *)
(***************************************************************************)
NilConfig ==
    [isNil |-> TRUE, AIProvider |-> "", GeminiAPIKey |-> "", OpenAIAPIKey |-> "",
     EnablePlugins |-> "", AutoConfirm |-> FALSE]

\* bug: the plugins are appended in the order of the list
LoadAllPlugins_listOrder(cfg) ==
    LET enabledPlugins == Split(cfg.EnablePlugins, ",")
        names == [i \in 1..Len(enabledPlugins) |-> TrimSpace(enabledPlugins[i])]
    IN  IF cfg.isNil THEN <<>>
        ELSE SelectSeq(names, LAMBDA name : name \in {knownPlugins[k] : k \in 1..6})

\* plugins.LoadAllPlugins
LoadAllPlugins(cfg) ==
    LET enabledPlugins == Split(cfg.EnablePlugins, ",")
        enabledMap == {TrimSpace(enabledPlugins[i]) : i \in 1..Len(enabledPlugins)}
    IN  IF cfg.isNil THEN <<>>
        ELSE SelectSeq(knownPlugins, LAMBDA name : name \in enabledMap)

(***************************************************************************)
(* ai package: client construction, the two backends, command extraction   *)
(***************************************************************************)
NilClient ==
    [isNil |-> TRUE, Provider |-> "", APIKey |-> ""]

\* bug: the check of the API key is missing
NewAIClient_noKeyCheck(cfg, environ) ==
    LET p == IF cfg.isNil THEN environ.AI_PROVIDER ELSE cfg.AIProvider
        provider == IF p = "" THEN "gemini" ELSE p
    IN  IF provider \notin {"gemini", "openai"} THEN NilClient
        ELSE [isNil |-> FALSE, Provider |-> provider, APIKey |-> ""]

NewAIClient(cfg, environ) ==
    LET p == IF cfg.isNil THEN environ.AI_PROVIDER ELSE cfg.AIProvider
        provider == IF p = "" THEN "gemini" ELSE p
        key == CASE provider = "gemini" ->
                      IF cfg.isNil THEN environ.GEMINI_API_KEY ELSE cfg.GeminiAPIKey
                 [] provider = "openai" ->
                      IF cfg.isNil THEN environ.OPENAI_API_KEY ELSE cfg.OpenAIAPIKey
                 [] OTHER -> ""
    IN  IF provider \notin {"gemini", "openai"} THEN NilClient
        ELSE IF key = "" THEN NilClient
        ELSE [isNil |-> FALSE, Provider |-> provider, APIKey |-> key]

\* the markdown fence of three backquotes; a TLA+ string cannot hold a backquote,
\* so "~" stands for it in every reply text of this module
codeFence ==
    "~~~"

proseMarkers ==
    {"Explanation:", "Note:", "The", "This", "Here"}

commandPatterns ==
    {"sudo", "apt", "npm", "git", "docker", "pip"}

extractCommand(response) ==
    LET raw == Split(response, "\n")
        lines == [i \in 1..Len(raw) |-> TrimSpace(raw[i])]
        skipped(i) == \/ lines[i] = ""
                      \/ \E m \in proseMarkers : HasPrefix(lines[i], m)
                      \/ HasPrefix(lines[i], codeFence)
        isCommand(i) == ~skipped(i) /\ \E k \in commandPatterns : Contains(lines[i], k)
        first(i) == lines[i] # "" /\ ~HasPrefix(lines[i], codeFence)
        c == FirstIndex({h \in 1..Len(lines) : isCommand(h)})
        f == FirstIndex({h \in 1..Len(lines) : first(h)})
    IN  IF c # 0 THEN lines[c]
        ELSE IF f # 0 THEN lines[f]
        ELSE response

\* what the HTTP exchange can come to: reply.transport = FALSE is a failed
\* client.Do; items are the candidates (gemini: their parts) or choices (openai)
callBackend(provider, reply) ==
    IF ~reply.transport THEN [text |-> "", err |-> "failed to make request"]
    ELSE IF reply.status # 200 THEN [text |-> "", err |-> "API request failed"]
    ELSE IF ~reply.decodable THEN [text |-> "", err |-> "failed to decode response"]
    ELSE IF Len(reply.items) = 0 THEN [text |-> "", err |-> "no response from AI"]
    ELSE IF provider = "gemini" /\ Len(reply.items[1]) = 0
         THEN [text |-> "", err |-> "no response from AI"]
    ELSE [text |-> extractCommand(TrimSpace(
                      IF Len(reply.items[1]) = 0 THEN "" ELSE reply.items[1][1])),
          err |-> "nil"]

\* bug: a provider that is not supported is served by gemini
GenerateSuggestion_defaultProvider(client, reply) ==
    callBackend(IF client.Provider = "openai" THEN "openai" ELSE "gemini", reply)

GenerateSuggestion(client, reply) ==
    IF client.Provider \in {"gemini", "openai"}
    THEN callBackend(client.Provider, reply)
    ELSE [text |-> "", err |-> "unsupported AI provider"]

\* context.Background(): a context that is never cancelled
Background ==
    "background"

\* client.Do(req) with the request bound to context c: once c is cancelled the
\* exchange fails, whatever the backend would have answered
Do(c, reply) ==
    IF c = "cancelled"
    THEN [transport |-> FALSE, status |-> 0, decodable |-> FALSE, items |-> <<>>]
    ELSE reply

\* ai.GetSuggestion: no request is sent when the client cannot be built
GetSuggestion(cfg, environ, reply) ==
    LET client == NewAIClient(cfg, environ)
    IN  IF client.isNil THEN [text |-> "", err |-> "failed to initialize AI client"]
        ELSE GenerateSuggestion(client, reply)

(***************************************************************************)
(* engine package                                                          *)
(***************************************************************************)
errorIndicators ==
    { "error:", "Error:", "ERROR:", "failed", "Failed", "FAILED", "not found",
      "Not found", "command not found", "is not a git command",
      "is not a docker command", "permission denied", "Permission denied",
      "E: Unable to locate package", "npm ERR!", "fatal:", "Fatal:" }

detectError(output) ==
    \E indicator \in errorIndicators : Contains(ToLower(output), ToLower(indicator))

(***************************************************************************)
(* Bounds: the inputs the environment can supply.                          *)
(***************************************************************************)
NumInvocations == 16
NumReplies == 7
NumStdin == 9

AllInvocations ==
    << [command |-> "sudo apt install rediscli", stdout |-> "",
        stderr |-> "E: Unable to locate package rediscli"],
       [command |-> "git clone docker-pip-repo", stdout |-> "",
        stderr |-> "fatal: unauthorized: permission denied"],
       [command |-> "docker run pip-tools", stdout |-> "",
        stderr |-> "permission denied while trying to connect to the Docker daemon socket"],
       [command |-> "sudo apt install vim", stdout |-> "",
        stderr |-> "E: Could not get lock /var/lib/dpkg/lock-frontend"],
       [command |-> "ls /missing", stdout |-> "",
        stderr |-> "ls: cannot access '/missing': No such file or directory"],
       [command |-> "foo", stdout |-> "", stderr |-> "bash: foo: command not found"],
       [command |-> "git frobnicate", stdout |-> "error: unknown thing", stderr |-> ""],
       [command |-> "make test", stdout |-> "2 tests FAILED", stderr |-> "warning: deprecated"],
       [command |-> "echo ok", stdout |-> "ok", stderr |-> ""],
       [command |-> "sudo apt install foo", stdout |-> "",
        stderr |-> "E: Unable to locate package foo"],
       [command |-> "git checout main", stdout |-> "",
        stderr |-> "git: 'checout' is not a git command. See 'git --help'."],
       [command |-> "docker run ubntu", stdout |-> "",
        stderr |-> "Unable to find image 'ubntu:latest' locally"],
       [command |-> "npm install expres", stdout |-> "",
        stderr |-> "npm ERR! 404 Not Found - GET https://registry.npmjs.org/expres"],
       [command |-> "docker ps", stdout |-> "",
        stderr |-> "permission denied while trying to connect to the Docker daemon socket"],
       [command |-> "git merge feature-branch", stdout |-> "",
        stderr |-> "Auto-merging file.txt\nCONFLICT (content): Merge conflict in file.txt\nAutomatic merge failed; fix conflicts and then commit the result."],
       [command |-> "pip install captcha", stdout |-> "",
        stderr |-> "bash: pip: command not found"],
       [command |-> "pip install reqeusts", stdout |-> "",
        stderr |-> "ERROR: No matching distribution found for reqeusts"] >>

AllReplies ==
    << [transport |-> TRUE, status |-> 200, decodable |-> TRUE,
        items |-> << <<"git status">> >>],
       [transport |-> FALSE, status |-> 0, decodable |-> FALSE, items |-> <<>>],
       [transport |-> TRUE, status |-> 200, decodable |-> TRUE, items |-> << <<"  \n">> >>],
       [transport |-> TRUE, status |-> 500, decodable |-> TRUE, items |-> <<>>],
       [transport |-> TRUE, status |-> 200, decodable |-> FALSE, items |-> <<>>],
       [transport |-> TRUE, status |-> 200, decodable |-> TRUE, items |-> <<>>],
       [transport |-> TRUE, status |-> 200, decodable |-> TRUE,
        items |-> << <<"Here is the fix:\n~~~bash\nsudo apt update\n~~~">> >>],
       [transport |-> TRUE, status |-> 200, decodable |-> TRUE, items |-> << <<>> >>] >>

AllStdin ==
    << [data |-> "y\n", err |-> "nil"],
       [data |-> "n\n", err |-> "nil"],
       [data |-> "\n", err |-> "nil"],
       [data |-> " YES \n", err |-> "nil"],
       [data |-> "", err |-> "EOF"],
       [data |-> "y", err |-> "EOF"],
       [data |-> "yes please\n", err |-> "nil"],
       [data |-> "Y\r\n", err |-> "nil"],
       [data |-> "ye\n", err |-> "nil"],
       [data |-> "no\n", err |-> "nil"] >>

Prefix(seq, n) ==
    {seq[i] : i \in 1..(IF n < Len(seq) THEN n ELSE Len(seq))}

Invocations == Prefix(AllInvocations, NumInvocations)
BackendReplies == Prefix(AllReplies, NumReplies)
StdinInputs == Prefix(AllStdin, NumStdin)

\* exit status of the original command and of the corrective command
RunErrors == {"nil", "exit status 1"}
FixErrors == {"nil", "exit status 2", "exec: executable file not found in $PATH"}

NoEnviron ==
    [AI_PROVIDER |-> "", GEMINI_API_KEY |-> "", OPENAI_API_KEY |-> ""]

Credentials ==
    { [AIProvider |-> "gemini", GeminiAPIKey |-> "g-key", OpenAIAPIKey |-> ""],
      [AIProvider |-> "gemini", GeminiAPIKey |-> "", OpenAIAPIKey |-> "o-key"],
      [AIProvider |-> "openai", GeminiAPIKey |-> "", OpenAIAPIKey |-> "o-key"],
      [AIProvider |-> "local", GeminiAPIKey |-> "g-key", OpenAIAPIKey |-> "o-key"] }

EnableLists ==
    { "apt,npm,git,docker,pip,systemctl", "pip, docker ,git,,helm" }

Settings ==
    { [config |-> [isNil |-> FALSE, AIProvider |-> c.AIProvider,
                   GeminiAPIKey |-> c.GeminiAPIKey, OpenAIAPIKey |-> c.OpenAIAPIKey,
                   EnablePlugins |-> e, AutoConfirm |-> a],
       environ |-> NoEnviron] : c \in Credentials, e \in EnableLists, a \in BOOLEAN }
    \cup
    { [config |-> NilConfig,
       environ |-> [AI_PROVIDER |-> "", GEMINI_API_KEY |-> k, OPENAI_API_KEY |-> ""]] :
         k \in {"", "g-key"} }

(***************************************************************************)
(* State                                                                   *)
(***************************************************************************)
VARIABLES
    AppConfig,   \* config.AppConfig
    environ,     \* the process environment read by NewAIClient
    ctx,         \* the context the caller hands to ProcessError: "live" or "cancelled"
    call,        \* the entry point in progress: ExecuteWithMonitoring or ProcessError
    pc,          \* where the call is
    plugins,     \* Engine.plugins
    command,     \* the command text handed to the diagnosis
    output,      \* the output text handed to the diagnosis
    stdout,      \* captured standard output of the original command
    stderr,      \* captured standard error of the original command
    err,         \* error of cmd.Run() for the original command
    idx,         \* position of the range loop over Engine.plugins
    suggestion,  \* the suggestion being presented
    source,      \* who produced it
    events,      \* calls made so far, in order
    ret          \* what the call returned

vars ==
    << AppConfig, environ, ctx, call, pc, plugins, command, output, stdout, stderr,
       err, idx, suggestion, source, events, ret >>

Event(op, who, res) ==
    [op |-> op, who |-> who, res |-> res]

Init ==
    /\ \E s \in Settings : AppConfig = s.config /\ environ = s.environ
    /\ ctx = "live"
    /\ call = "none"
    /\ pc = "idle"
    /\ plugins = <<>>
    /\ command = ""
    /\ output = ""
    /\ stdout = ""
    /\ stderr = ""
    /\ err = "nil"
    /\ idx = 0
    /\ suggestion = ""
    /\ source = ""
    /\ events = <<>>
    /\ ret = [suggestion |-> "", err |-> "nil"]

\* the output ExecuteWithMonitoring hands to detectError and handleError
diagnosisOutput(runErr, out, errOut) ==
    IF runErr # "nil" THEN (IF errOut = "" THEN out ELSE errOut) ELSE out

\* bug: the first matching plugin ends the loop, whatever it suggests
suggestionFound_always(s) ==
    TRUE

\* "if suggestion != \"\"" in the plugin loops of ProcessError and handleError
suggestionFound(s) ==
    s # ""

\* presentSuggestion: is the prompt skipped
autoConfirm(cfg) ==
    ~cfg.isNil /\ cfg.AutoConfirm

\* bug: any answer that begins with "y" confirms
confirmed_prefix(data, readErr) ==
    readErr = "nil" /\ HasPrefix(TrimSpace(ToLower(data)), "y")

\* bug: the read error is not looked at
confirmed_ignoreErr(data, readErr) ==
    LET input == TrimSpace(ToLower(data))
    IN  input = "y" \/ input = "yes"

\* presentSuggestion: does the line read from standard input confirm
confirmed(data, readErr) ==
    LET input == TrimSpace(ToLower(data))
    IN  readErr = "nil" /\ (input = "y" \/ input = "yes")

\* bug: the test of handleError's result is inverted
returnValue_inverted(runErr, handled) ==
    IF runErr # "nil" /\ handled THEN runErr ELSE "nil"

\* bug: a diagnosis that ends without a successful fix is reported as an
\* error even when the original command succeeded
returnValue_unhandled(runErr, handled) ==
    IF handled THEN "nil"
    ELSE IF runErr # "nil" THEN runErr ELSE "suggestion not applied"

\* the error ExecuteWithMonitoring returns, given handleError's result
returnValue(runErr, handled) ==
    IF runErr # "nil" /\ ~handled THEN runErr ELSE "nil"

\* bug: with auto-confirm, a corrective command that fails is run again
Return_retry(handled, evs) ==
    IF ~handled /\ pc = "executeSuggestion" /\ autoConfirm(AppConfig)
    THEN /\ pc' = "presentSuggestion"
         /\ UNCHANGED << AppConfig, environ, ctx, call, plugins, command, output, stdout,
                         stderr, err, idx, suggestion, source, events, ret >>
    ELSE /\ pc' = "done"
         /\ events' = evs
         /\ ret' = [suggestion |-> "", err |-> returnValue(err, handled)]
         /\ UNCHANGED << AppConfig, environ, ctx, call, plugins, command, output, stdout,
                         stderr, err, idx, suggestion, source >>

\* ExecuteWithMonitoring's return statements after handleError
Return(handled, evs) ==
    /\ pc' = "done"
    /\ events' = evs
    /\ ret' = [suggestion |-> "", err |-> returnValue(err, handled)]
    /\ UNCHANGED << AppConfig, environ, ctx, call, plugins, command, output, stdout,
                    stderr, err, idx, suggestion, source >>

\* ExecuteWithMonitoring up to the call of handleError
ExecuteWithMonitoring ==
    /\ pc = "idle"
    /\ \E inv \in Invocations, runErr \in RunErrors :
         LET out == diagnosisOutput(runErr, inv.stdout, inv.stderr)
             ran == Append(events, Event("Run", "command", runErr))
         IN  /\ call' = "ExecuteWithMonitoring"
             /\ plugins' = LoadAllPlugins(AppConfig)
             /\ command' = inv.command
             /\ stdout' = inv.stdout
             /\ stderr' = inv.stderr
             /\ err' = runErr
             /\ output' = out
             /\ IF detectError(out)
                THEN /\ pc' = "plugins"
                     /\ idx' = 1
                     /\ events' = Append(ran, Event("handleError", "engine", out))
                     /\ ret' = ret
                ELSE /\ pc' = "done"
                     /\ idx' = idx
                     /\ events' = ran
                     /\ ret' = [suggestion |-> "", err |-> runErr]
             /\ UNCHANGED << AppConfig, environ, ctx, suggestion, source >>

\* a caller builds an Engine and calls ProcessError(ctx, command, output)
ProcessError ==
    /\ pc = "idle"
    /\ \E inv \in Invocations :
         /\ call' = "ProcessError"
         /\ plugins' = LoadAllPlugins(AppConfig)
         /\ command' = inv.command
         /\ output' = IF inv.stderr = "" THEN inv.stdout ELSE inv.stderr
         /\ pc' = "plugins"
         /\ idx' = 1
         /\ events' = Append(events, Event("ProcessError", "caller", inv.command))
         /\ UNCHANGED << AppConfig, environ, ctx, stdout, stderr, err, suggestion, source, ret >>

\* the caller cancels the context it handed to ProcessError, or its deadline passes
Cancel ==
    /\ call = "ProcessError"
    /\ pc = "plugins"
    /\ ctx = "live"
    /\ ctx' = "cancelled"
    /\ UNCHANGED << AppConfig, environ, call, pc, plugins, command, output, stdout,
                    stderr, err, idx, suggestion, source, events, ret >>

\* one iteration of "for _, plugin := range e.plugins" where Match is false
PluginSkip ==
    /\ pc = "plugins"
    /\ idx <= Len(plugins)
    /\ ~Match(plugins[idx], command, output)
    /\ idx' = idx + 1
    /\ events' = Append(events, Event("Match", plugins[idx], "false"))
    /\ UNCHANGED << AppConfig, environ, ctx, call, pc, plugins, command, output, stdout,
                    stderr, err, suggestion, source, ret >>

\* one iteration where Match is true: Suggest runs, with the backend call it makes
PluginSuggest ==
    /\ pc = "plugins"
    /\ idx <= Len(plugins)
    /\ Match(plugins[idx], command, output)
    /\ \E quickFix \in getQuickFix(plugins[idx], command, output),
          reply \in BackendReplies :
         LET plugin == plugins[idx]
             ai == GetSuggestion(AppConfig, environ, Do(Background, reply))
             s == Suggest(plugin, command, quickFix, ai)
             matched == Append(events, Event("Match", plugin, "true"))
             asked == IF callsAI(plugin, quickFix)
                      THEN Append(matched, Event("GetSuggestion", plugin, ai.err))
                      ELSE matched
             evs == Append(asked, Event("Suggest", plugin, s))
         IN  /\ events' = evs
             /\ IF ~suggestionFound(s)
                THEN /\ idx' = idx + 1
                     /\ UNCHANGED << pc, suggestion, source, ret >>
                ELSE IF call = "ProcessError"
                THEN /\ pc' = "done"
                     /\ ret' = [suggestion |-> s, err |-> "nil"]
                     /\ UNCHANGED << idx, suggestion, source >>
                ELSE /\ pc' = "presentSuggestion"
                     /\ suggestion' = s
                     /\ source' = plugin
                     /\ UNCHANGED << idx, ret >>
    /\ UNCHANGED << AppConfig, environ, ctx, call, plugins, command, output, stdout,
                    stderr, err >>

\* after the loop: the engine's own ai.GetSuggestion
Fallback ==
    /\ pc = "plugins"
    /\ idx > Len(plugins)
    /\ \E reply \in BackendReplies :
         LET parent == IF call = "ProcessError" THEN ctx ELSE Background
             ai == GetSuggestion(AppConfig, environ, Do(parent, reply))
             evs == Append(events, Event("GetSuggestion", "engine", ai.err))
         IN  IF call = "ProcessError"
             THEN /\ pc' = "done"
                  /\ events' = evs
                  /\ ret' = IF ai.err # "nil"
                            THEN [suggestion |-> "",
                                  err |-> "failed to get AI suggestion: " \o ai.err]
                            ELSE [suggestion |-> ai.text, err |-> "nil"]
                  /\ UNCHANGED << AppConfig, environ, ctx, call, plugins, command, output,
                                  stdout, stderr, err, idx, suggestion, source >>
             ELSE IF ai.err = "nil" /\ suggestionFound(ai.text)
             THEN /\ pc' = "presentSuggestion"
                  /\ events' = evs
                  /\ suggestion' = ai.text
                  /\ source' = "AI"
                  /\ UNCHANGED << AppConfig, environ, ctx, call, plugins, command, output,
                                  stdout, stderr, err, idx, ret >>
             ELSE Return(FALSE, evs)

\* presentSuggestion up to the call of executeSuggestion
presentSuggestion ==
    /\ pc = "presentSuggestion"
    /\ IF autoConfirm(AppConfig)
       THEN /\ pc' = "executeSuggestion"
            /\ UNCHANGED << AppConfig, environ, ctx, call, plugins, command, output, stdout,
                            stderr, err, idx, suggestion, source, events, ret >>
       ELSE \E in \in StdinInputs :
              LET evs == Append(events, Event("ReadString", in.err, in.data))
              IN  IF confirmed(in.data, in.err)
                  THEN /\ pc' = "executeSuggestion"
                       /\ events' = evs
                       /\ UNCHANGED << AppConfig, environ, ctx, call, plugins, command,
                                       output, stdout, stderr, err, idx, suggestion,
                                       source, ret >>
                  ELSE Return(FALSE, evs)

\* executeSuggestion, and the return of ExecuteWithMonitoring that follows it
executeSuggestion ==
    /\ pc = "executeSuggestion"
    /\ IF Len(Fields(suggestion)) = 0
       THEN Return(FALSE, events)
       ELSE \E fixErr \in FixErrors :
              Return(fixErr = "nil", Append(events, Event("Run", "suggestion", fixErr)))

Next ==
    \/ ExecuteWithMonitoring
    \/ ProcessError
    \/ Cancel
    \/ PluginSkip
    \/ PluginSuggest
    \/ Fallback
    \/ presentSuggestion
    \/ executeSuggestion

Spec == Init /\ [][Next]_vars

\* every spawned process, the stdin read and the backend call return
FairSpec == Spec /\ WF_vars(Next)

(***************************************************************************)
(* Properties                                                              *)
(***************************************************************************)
IsMatch(e) == e.op = "Match"
IsSuggest(e) == e.op = "Suggest"
IsBackendCall(e) == e.op = "GetSuggestion"
IsDiagnosis(e) == e.op = "handleError"
IsPrompt(e) == e.op = "ReadString"
IsFixRun(e) == e.op = "Run" /\ e.who = "suggestion"

\* the positions in events of the calls of each kind
Matches == {i \in 1..Len(events) : IsMatch(events[i])}
Suggests == {i \in 1..Len(events) : IsSuggest(events[i])}
BackendCalls == {i \in 1..Len(events) : IsBackendCall(events[i])}
Diagnoses == {i \in 1..Len(events) : IsDiagnosis(events[i])}
Prompts == {i \in 1..Len(events) : IsPrompt(events[i])}
FixRuns == {i \in 1..Len(events) : IsFixRun(events[i])}

Affirmative(e) ==
    e.who = "nil" /\ TrimSpace(ToLower(e.res)) \in {"y", "yes"}

Monitoring == call = "ExecuteWithMonitoring"
Processing == call = "ProcessError"

\* the plugins consulted so far, in the order of their Match calls
Consulted ==
    LET m == SelectSeq(events, IsMatch)
    IN  [k \in 1..Len(m) |-> m[k].who]

\* C1: the registry is walked in order; a plugin's Suggest is called only after
\* its Match was true; a non-empty Suggest ends the walk and is the suggestion
\* returned (ProcessError) or presented (handleError); an empty Suggest does
\* not end it: the next plugin, or after the last one the fallback, follows.
C1_FirstNonEmptySuggestionWins ==
    /\ Len(Consulted) <= Len(plugins)
    /\ \A k \in 1..Len(Consulted) : Consulted[k] = plugins[k]
    /\ \A i \in Suggests :
         /\ \E j \in 1..(i - 1) :
              IsMatch(events[j]) /\ events[j].who = events[i].who /\ events[j].res = "true"
         /\ events[i].res # "" =>
              /\ \A j \in (i + 1)..Len(events) :
                   ~IsMatch(events[j]) /\ ~IsSuggest(events[j]) /\ ~IsBackendCall(events[j])
              /\ Processing => pc = "done" /\ ret = [suggestion |-> events[i].res, err |-> "nil"]
              /\ Monitoring => suggestion = events[i].res /\ source = events[i].who
         /\ events[i].res = "" /\ pc # "plugins" =>
              \E j \in (i + 1)..Len(events) : IsMatch(events[j]) \/ IsBackendCall(events[j])
    /\ pc \notin {"idle", "plugins"} /\ (\A i \in Suggests : events[i].res = "") =>
         \/ Len(Consulted) = Len(plugins)
         \/ Diagnoses = {} /\ Monitoring

\* C1 witness: git matched and suggested nothing, docker then suggested a fix,
\* and pip, which also matches, was never asked
C1_Witness ==
    /\ pc = "done"
    /\ \E i, j \in Suggests :
         /\ i < j
         /\ events[i].who = "git" /\ events[i].res = ""
         /\ events[j].who = "docker" /\ events[j].res # ""
    /\ \E k \in 1..Len(plugins) : plugins[k] = "pip" /\ Match("pip", command, output)
    /\ \A i \in Matches : events[i].who # "pip"

\* C2 (as claimed): ai.GetSuggestion is called by the engine only, and only
\* after every plugin of the registry had Match false or an empty Suggest
C2_BackendOnlyAfterAllPlugins ==
    \A i \in BackendCalls :
        /\ events[i].who = "engine"
        /\ \A k \in 1..Len(plugins) :
             \E j \in 1..(i - 1) :
                /\ events[j].who = plugins[k]
                /\ \/ IsMatch(events[j]) /\ events[j].res = "false"
                   \/ IsSuggest(events[j]) /\ events[j].res = ""

\* C3 (as claimed): when Match is true and no rule of the plugin applies,
\* Suggest returns the empty string
C3_NoRuleGivesEmptySuggestion ==
    \A i \in Suggests :
        getQuickFix(events[i].who, command, output) = {""} => events[i].res = ""

\* C4 (as claimed): a failed original command is always diagnosed before
\* ExecuteWithMonitoring returns
C4_FailedIsAlwaysDiagnosed ==
    Monitoring /\ pc = "done" /\ err # "nil" => Diagnoses # {}

\* C5: the corrective command runs, or is about to run, only if auto-confirm
\* is on or the line read from standard input is "y" or "yes" after trimming
\* and lower-casing; with auto-confirm on, standard input is never read
C5_ExecutionNeedsConfirmation ==
    /\ (pc = "executeSuggestion" \/ FixRuns # {}) =>
          \/ ~AppConfig.isNil /\ AppConfig.AutoConfirm
          \/ \E i \in Prompts : Affirmative(events[i])
    /\ ~AppConfig.isNil /\ AppConfig.AutoConfirm => Prompts = {}

\* C5 witness: " YES " was typed without auto-confirm and the fix was run
C5_Witness ==
    /\ AppConfig.AutoConfirm = FALSE
    /\ \E i \in Prompts : events[i].res = " YES \n"
    /\ FixRuns # {}

\* some plugin of the registry matches and its rules give a non-empty fix
PluginFixAvailable ==
    \E k \in 1..Len(plugins) :
        /\ Match(plugins[k], command, output)
        /\ \E quickFix \in getQuickFix(plugins[k], command, output) : quickFix # ""

\* C6 (as claimed): original command failed, a plugin has a fix, auto-confirm
\* is on and the fix does not fail: ExecuteWithMonitoring returns nil
C6_AutoConfirmedFixGivesSuccess ==
    /\ Monitoring /\ pc = "done" /\ err # "nil"
    /\ ~AppConfig.isNil /\ AppConfig.AutoConfirm
    /\ PluginFixAvailable
    /\ \A i \in FixRuns : events[i].res = "nil"
    => ret.err = "nil"

\* C7: when the original command failed and the corrective command failed,
\* the error returned is the original command's
C7_FailedFixReturnsOriginalError ==
    /\ Monitoring /\ pc = "done" /\ err # "nil"
    /\ \E i \in FixRuns : events[i].res # "nil"
    => ret.err = err

\* C7 witness: the fix could not be started after a failed original command
C7_Witness ==
    /\ pc = "done" /\ err = "exit status 1"
    /\ \E i \in FixRuns :
         events[i].res = "exec: executable file not found in $PATH"

\* C8: without auto-confirm, an answer that is not "y"/"yes" (after trimming
\* and lower-casing) or a failed read ends the cycle: nothing is executed and
\* the original error is returned
C8_RejectionReturnsOriginalError ==
    /\ Monitoring /\ err # "nil"
    /\ \E i \in Prompts : ~Affirmative(events[i])
    => /\ pc = "done"
       /\ FixRuns = {}
       /\ ret.err = err

\* C8 witness: the read of standard input failed after "y" had been typed
C8_Witness ==
    /\ Monitoring /\ err # "nil" /\ pc = "done"
    /\ \E i \in Prompts : events[i].who = "EOF" /\ events[i].res = "y"

\* no plugin of the registry matches
NoPluginMatches ==
    \A k \in 1..Len(plugins) : ~Match(plugins[k], command, output)

\* the API key of the selected provider is missing
NoCredential ==
    LET p == IF AppConfig.isNil THEN environ.AI_PROVIDER ELSE AppConfig.AIProvider
        gemini == IF AppConfig.isNil THEN environ.GEMINI_API_KEY ELSE AppConfig.GeminiAPIKey
        openai == IF AppConfig.isNil THEN environ.OPENAI_API_KEY ELSE AppConfig.OpenAIAPIKey
    IN  \/ p \in {"", "gemini"} /\ gemini = ""
        \/ p = "openai" /\ openai = ""

\* C9: no plugin matches and the backend has no credential: ProcessError
\* returns the empty suggestion with an error; ExecuteWithMonitoring, after a
\* failed command, neither prompts nor executes and returns the original error
C9_NoMatchNoCredential ==
    pc = "done" /\ NoPluginMatches /\ NoCredential =>
        /\ Processing => ret.suggestion = "" /\ ret.err # "nil"
        /\ Monitoring /\ err # "nil" =>
             /\ Prompts = {}
             /\ FixRuns = {}
             /\ ret.err = err

\* C9 witness: a failed command was diagnosed, every plugin of a full registry
\* declined, and the fallback failed for want of a key
C9_Witness ==
    /\ Monitoring /\ pc = "done" /\ err # "nil"
    /\ NoPluginMatches /\ NoCredential /\ Len(plugins) = 6
    /\ \E i \in BackendCalls :
         events[i].who = "engine" /\ events[i].res = "failed to initialize AI client"

\* the monitor's calls happen in the order run, diagnose, prompt, re-run
RunOrder(e) ==
    CASE e.op = "Run" /\ e.who = "command" -> 1
      [] IsDiagnosis(e) -> 2
      [] IsPrompt(e) -> 4
      [] IsFixRun(e) -> 5
      [] OTHER -> 3

\* C10: a run makes at most one diagnosis, one prompt and one corrective
\* execution, in that order, nothing follows the corrective execution, and the
\* call returns
C10_OnePassAndTerminates ==
    /\ [](/\ Cardinality(Diagnoses) <= 1
          /\ Cardinality(Prompts) <= 1
          /\ Cardinality(FixRuns) <= 1
          /\ \A i, j \in 1..Len(events) :
               i < j => RunOrder(events[i]) <= RunOrder(events[j])
          /\ \A i \in FixRuns : i = Len(events) /\ pc = "done")
    /\ <>(pc = "done")

\* C10 witness: a run that went through all of diagnosis, prompt and re-run
C10_Witness ==
    /\ pc = "done"
    /\ Diagnoses # {}
    /\ Prompts # {}
    /\ FixRuns # {}


(***************************************************************************)
(* The registry loader and the plugins' rules taken alone: each is applied *)
(* once to an input drawn from a bounded set.                              *)
(***************************************************************************)
MaxNames == 3

ListNames ==
    {"apt", "npm", "git", "helm", ""}

ListSeparators ==
    {",", " ", " , "}

\* the enablement lists of at most n names
RECURSIVE ListsUpTo(_)
ListsUpTo(n) ==
    IF n <= 1 THEN ListNames
    ELSE The({ shorter \cup {l \o s \o name : l \in shorter, s \in ListSeparators,
                                              name \in ListNames} :
               shorter \in {ListsUpTo(n - 1)} })

DefaultPlugins ==
    "apt,npm,git,docker,pip,systemctl"

\* a configuration file that sets ENABLE_PLUGINS and no API key
ConfigWith(list) ==
    [isNil |-> FALSE, AIProvider |-> "gemini", GeminiAPIKey |-> "", OpenAIAPIKey |-> "",
     EnablePlugins |-> list, AutoConfirm |-> FALSE]

\* the elements of a sequence
Range(seq) ==
    {seq[i] : i \in 1..Len(seq)}

Case(cmd, out) ==
    [command |-> cmd, output |-> out]

\* one command per key of each correction table, with the output the tool
\* prints for it
TableCases ==
    {Case("sudo apt install " \o k, "E: Unable to locate package " \o k) :
        k \in DOMAIN aptCorrections}
    \cup {Case("npm " \o k \o " express", "npm ERR! Unknown command: " \o k) :
        k \in DOMAIN npmCorrections}
    \cup {Case("npm install " \o k,
               "npm ERR! 404 Not Found - GET https://registry.npmjs.org/" \o k) :
        k \in DOMAIN npmPackageCorrections}
    \cup {Case("git " \o k \o " main",
               "git: '" \o k \o "' is not a git command. See 'git --help'.") :
        k \in DOMAIN commandCorrections}
    \cup {Case("docker " \o k \o " -a", "docker: '" \o k \o "' is not a docker command.") :
        k \in DOMAIN dockerCorrections}
    \cup {Case("docker run " \o k, "Unable to find image '" \o k \o ":latest' locally") :
        k \in DOMAIN imageCorrections}
    \cup {Case("pip3 install " \o k,
               "ERROR: Could not find a version that satisfies the requirement " \o k) :
        k \in DOMAIN pipPackageCorrections}
    \cup {Case("sudo systemctl start " \o k,
               "Failed to start " \o k \o ".service: Unit not found.") :
        k \in DOMAIN serviceCorrections}

NumEdgeCases == 10

AllEdgeCases ==
    << Case("", "E: Unable to locate package test"),
       Case("sudo apt install test", ""),
       Case("sudo APT INSTALL REDISCLI", "E: Unable to locate package REDISCLI"),
       Case("npm  instal   express", "npm ERR! Unknown command: instal"),
       Case("git  checout main", "git: 'checout' is not a git command. See 'git --help'."),
       Case("git checout main",
            "fatal: not a git repository (or any of the parent directories): .git"),
       Case("apt install rediscli",
            "E: Unable to locate package rediscli\nE: Could not open lock file - open (13: Permission denied)"),
       Case("npm instal -g express",
            "npm ERR! Unknown command: instal\nnpm ERR! Error: EACCES: permission denied"),
       Case("docker ps",
            "permission denied while trying to connect to the Docker daemon socket"),
       Case("docker  pul  -q nginx", "docker: 'pul' is not a docker command."),
       Case("echo ok", "ok") >>

\* TestAptPlugin: the repository errors, and the 404 line with one space
StaleIndexCases ==
    { Case("sudo apt install some-package",
           "Err:1 http://archive.ubuntu.com/ubuntu focal/main amd64 Packages\n  404  Not Found [IP: 91.189.91.38 80]"),
      Case("sudo apt install curl",
           "E: Failed to fetch http://archive.ubuntu.com/ubuntu/dists/focal/Release"),
      Case("sudo apt install wget",
           "Err:1 http://archive.ubuntu.com/ubuntu focal/main\n  404 Not Found") }

\* TestGitPlugin, common Git typos: the command and the fix the test expects
GitTypoTests ==
    << <<"git checout main", "checout", "git checkout main">>,
       <<"git comit -m 'fix bug'", "comit", "git commit -m 'fix bug'">>,
       <<"git branc -a", "branc", "git branch -a">>,
       <<"git stat", "stat", "git status">>,
       <<"git merg develop", "merg", "git merge develop">>,
       <<"git rebas main", "rebas", "git rebase main">>,
       <<"git remot -v", "remot", "git remote -v">>,
       <<"git fetc origin", "fetc", "git fetch origin">>,
       <<"git pul origin main", "pul", "git pull origin main">>,
       <<"git pus origin main", "pus", "git push origin main">>,
       <<"git ad .", "ad", "git add .">>,
       <<"git rese --hard HEAD", "rese", "git reset --hard HEAD">>,
       <<"git stas", "stas", "git stash">>,
       <<"git lo --oneline", "lo", "git log --oneline">>,
       <<"git dif HEAD~1", "dif", "git diff HEAD~1">> >>

GitTypoCases ==
    { Case(GitTypoTests[i][1],
           "git: '" \o GitTypoTests[i][2] \o "' is not a git command. See 'git --help'.") :
        i \in 1..Len(GitTypoTests) }

\* TestGitPlugin: merge conflict, rebase conflict
ConflictCases ==
    { Case("git merge feature-branch",
           "Auto-merging file.txt\nCONFLICT (content): Merge conflict in file.txt\nAutomatic merge failed; fix conflicts and then commit the result."),
      Case("git rebase main",
           "First, rewinding head to replay your work on top of it...\nApplying: commit message\nUsing index info to reconstruct a base tree...\nFalling back to patching base and 3-way merge...\nAuto-merging file.txt\nCONFLICT (content): Merge conflict in file.txt") }

\* commands whose subcommand or entity is already canonical, or is in no table
CanonicalCases ==
    { Case("git fetch origin",
           "fatal: unable to access 'https://github.com/user/repo.git/': Could not resolve host: github.com"),
      Case("git merge feature-branch", "error: Merging is not possible because you have unmerged files."),
      Case("git tag v1.0", "fatal: tag 'v1.0' already exists"),
      Case("docker frobnicate", "docker: 'frobnicate' is not a docker command."),
      Case("docker stop web", "Error response from daemon: No such container: web"),
      Case("npm install react", "npm ERR! 404 Not Found - GET https://registry.npmjs.org/react"),
      Case("npm frobnicate", "npm ERR! Unknown command: frobnicate"),
      Case("systemctl start nginx.service", "Failed to start nginx.service: Unit not found.") }

RuleCases ==
    TableCases \cup Prefix(AllEdgeCases, NumEdgeCases) \cup StaleIndexCases
        \cup GitTypoCases \cup ConflictCases \cup CanonicalCases

\* the providers a caller can name in a client it builds itself
Providers ==
    {"gemini", "openai", "local"}

ClientFor(provider) ==
    [isNil |-> FALSE, Provider |-> provider, APIKey |-> "key"]

NumReplyTexts == 13

\* reply texts for extractCommand ("~~~" is the markdown fence)
AllReplyTexts ==
    << "",
       "git status",
       "Here is the fix:\n~~~bash\nsudo apt update\n~~~",
       "Run:\nsystemctl restart nginx",
       "~~~\n~~~",
       "\n  \n",
       "Try again later\nls -la",
       "Explanation: git is missing\nNote: use apt\n  pip3 install requests  ",
       "The docker daemon is down",
       "~~~sh\nls -la\n~~~",
       "chmod +x run.sh\nnpm start",
       "~~~systemctl",
       "This\n\n~~~\nThe end",
       "echo done\n~~~\ndocker ps" >>

RuleInit ==
    /\ \/ /\ \E list \in ListsUpTo(MaxNames) \cup {DefaultPlugins} :
               AppConfig = ConfigWith(list)
          /\ pc = "config"
          /\ command = ""
          /\ output = ""
          /\ environ = NoEnviron
       \/ /\ AppConfig = ConfigWith(DefaultPlugins)
          /\ pc = "rules"
          /\ \E c \in RuleCases : command = c.command /\ output = c.output
          /\ environ = NoEnviron
       \/ /\ \E s \in Settings : AppConfig = s.config /\ environ = s.environ
          /\ pc = "client"
          /\ command = ""
          /\ output = ""
       \/ /\ AppConfig = ConfigWith(DefaultPlugins)
          /\ pc = "reply"
          /\ command = ""
          /\ output \in Prefix(AllReplyTexts, NumReplyTexts)
          /\ environ = NoEnviron
    /\ ctx = "live"
    /\ call = "none"
    /\ plugins = <<>>
    /\ stdout = ""
    /\ stderr = ""
    /\ err = "nil"
    /\ idx = 0
    /\ suggestion = ""
    /\ source = ""
    /\ events = <<>>
    /\ ret = [suggestion |-> "", err |-> "nil"]

\* engine.New(): the registry is loaded from the configuration
New ==
    /\ pc = "config"
    /\ pc' = "loaded"
    /\ call' = "New"
    /\ plugins' = LoadAllPlugins(AppConfig)
    /\ UNCHANGED << AppConfig, environ, ctx, command, output, stdout, stderr, err, idx,
                    suggestion, source, events, ret >>

\* plugin.Match on the input and, when it is true, plugin.Suggest, as a
\* caller holding the plugin does; the outcome of the rules is recorded too
Called(plugin, cmd, evs) ==
    IF ~Match(plugin, cmd, output)
    THEN {Append(evs, Event("Match", plugin, "false"))}
    ELSE {Append(Append(Append(evs, Event("Match", plugin, "true")),
                        Event("getQuickFix", plugin, quickFix)),
                 Event("Suggest", plugin,
                       Suggest(plugin, cmd, quickFix, GetSuggestion(AppConfig, environ, reply)))) :
            quickFix \in getQuickFix(plugin, cmd, output), reply \in BackendReplies}

Consult ==
    /\ pc = "rules"
    /\ pc' = "consulted"
    /\ \E plugin \in Range(knownPlugins) :
         /\ source' = plugin
         /\ events' \in Called(plugin, command, events)
    /\ UNCHANGED << AppConfig, environ, ctx, call, plugins, command, output, stdout, stderr,
                    err, idx, suggestion, ret >>

\* the same plugin is called a second time on the same input
Repeat ==
    /\ pc = "consulted"
    /\ events[Len(events)].op = "Suggest"
    /\ pc' = "repeated"
    /\ events' \in Called(source, command, events)
    /\ UNCHANGED << AppConfig, environ, ctx, call, plugins, command, output, stdout, stderr,
                    err, idx, suggestion, source, ret >>

\* the same plugin is called on the command its rules returned, with the same output
Reconsult ==
    /\ pc = "consulted"
    /\ events[Len(events)].op = "Suggest"
    /\ events[Len(events) - 1].res # ""
    /\ pc' = "reconsulted"
    /\ suggestion' = events[Len(events) - 1].res
    /\ events' \in Called(source, events[Len(events) - 1].res, events)
    /\ UNCHANGED << AppConfig, environ, ctx, call, plugins, command, output, stdout, stderr,
                    err, idx, source, ret >>

\* the same plugin is called on the command with "sudo " put before it, with
\* the same output
Elevate ==
    /\ pc = "consulted"
    /\ events[Len(events)].op = "Suggest"
    /\ pc' = "elevated"
    /\ events' \in Called(source, "sudo " \o command, events)
    /\ UNCHANGED << AppConfig, environ, ctx, call, plugins, command, output, stdout, stderr,
                    err, idx, suggestion, source, ret >>

\* a caller asks ai.GetSuggestion; the answer the backend has ready is recorded
\* first, the error returned after it, and the text returned is kept in suggestion
Ask ==
    /\ pc = "client"
    /\ pc' = "asked"
    /\ call' = "GetSuggestion"
    /\ \E reply \in BackendReplies :
         LET ai == GetSuggestion(AppConfig, environ, reply)
         IN  /\ events' = << Event("reply", "backend", reply),
                             Event("GetSuggestion", "caller", ai.err) >>
             /\ suggestion' = ai.text
    /\ UNCHANGED << AppConfig, environ, ctx, plugins, command, output, stdout, stderr,
                    err, idx, source, ret >>

\* a caller calls GenerateSuggestion on a client it has built for a provider
Generate ==
    /\ pc = "client"
    /\ pc' = "generated"
    /\ call' = "GenerateSuggestion"
    /\ \E reply \in BackendReplies, provider \in Providers :
         LET ai == GenerateSuggestion(ClientFor(provider), reply)
         IN  /\ events' = << Event("reply", "backend", reply),
                             Event("GenerateSuggestion", provider, ai.err) >>
             /\ suggestion' = ai.text
             /\ source' = provider
    /\ UNCHANGED << AppConfig, environ, ctx, plugins, command, output, stdout, stderr,
                    err, idx, ret >>

\* the same answer, given by the other backend
GenerateOther ==
    /\ pc = "generated"
    /\ source \in {"gemini", "openai"}
    /\ pc' = "compared"
    /\ \E provider \in {"gemini", "openai"} \ {source} :
         LET ai == GenerateSuggestion(ClientFor(provider), events[1].res)
         IN  /\ events' = Append(events, Event("GenerateSuggestion", provider, ai.err))
             /\ ret' = [suggestion |-> ai.text, err |-> ai.err]
    /\ UNCHANGED << AppConfig, environ, ctx, call, plugins, command, output, stdout,
                    stderr, err, idx, suggestion, source >>

\* extractCommand applied to a reply text
Extract ==
    /\ pc = "reply"
    /\ pc' = "extracted"
    /\ call' = "extractCommand"
    /\ suggestion' = extractCommand(output)
    /\ UNCHANGED << AppConfig, environ, ctx, plugins, command, output, stdout, stderr,
                    err, idx, source, events, ret >>

RuleNext ==
    \/ New
    \/ Consult
    \/ Repeat
    \/ Reconsult
    \/ Elevate
    \/ Ask
    \/ Generate
    \/ GenerateOther
    \/ Extract

RuleSpec == RuleInit /\ [][RuleNext]_vars

(***************************************************************************)
(* Properties of the registry loader and of the rules                      *)
(***************************************************************************)
\* the names of an enablement list read as separated by commas and/or white space
NamesIn(list) ==
    UNION {Range(Fields(piece)) : piece \in Range(Split(list, ","))}

\* the names of an enablement list read as separated by commas, white space
\* around a name not counting
CommaNames(list) ==
    {TrimSpace(piece) : piece \in Range(Split(list, ","))}

\* the order of seq is that of knownPlugins, and no name occurs twice
Canonical(seq) ==
    \A i, j \in 1..Len(seq) :
        i < j => \E a, b \in 1..Len(knownPlugins) :
                    a < b /\ knownPlugins[a] = seq[i] /\ knownPlugins[b] = seq[j]

\* C11 (as claimed): the registry holds exactly the known names that occur in
\* the list, whether commas or white space separate them, in canonical order
C11_ListedNamesAreLoaded ==
    pc = "loaded" =>
        /\ Range(plugins) = Range(knownPlugins) \cap NamesIn(AppConfig.EnablePlugins)
        /\ Canonical(plugins)

\* C11 (amended): the registry holds exactly the known names that occur in the
\* list between commas, white space around a name ignored, each once and in
\* the canonical order, whatever the order and repetition in the list
C11_CommaSeparatedNamesAreLoaded ==
    pc = "loaded" =>
        /\ Range(plugins) = Range(knownPlugins) \cap CommaNames(AppConfig.EnablePlugins)
        /\ Canonical(plugins)

\* C11 witness: a list out of order, with a repetition and padded names
C11_Witness ==
    /\ pc = "loaded"
    /\ AppConfig.EnablePlugins = "git , apt,git"
    /\ plugins = << "apt", "git" >>

\* the trigger phrases of each plugin
Triggers(plugin) ==
    CASE plugin = "apt"       -> aptErrors
      [] plugin = "npm"       -> npmErrors
      [] plugin = "git"       -> errorPatterns
      [] plugin = "docker"    -> dockerErrors
      [] plugin = "pip"       -> pipErrors
      [] plugin = "systemctl" -> systemctlErrors

\* the command names the plugin's tool, in any letter case
HasToken(cmd, plugin) ==
    Contains(ToLower(cmd), plugin)

\* the output holds one of the plugin's trigger phrases, in any letter case
HasTrigger(out, plugin) ==
    \E phrase \in Triggers(plugin) : Contains(ToLower(out), ToLower(phrase))

\* C12: Match is false on an empty command, on an empty output and on a
\* command without the tool's token; it is true only for a command with the
\* token and an output with a trigger phrase
C12_MatchNeedsTokenAndTrigger ==
    pc \in {"consulted", "repeated", "reconsulted"} =>
        /\ IsMatch(events[1]) /\ events[1].who = source
        /\ (command = "" \/ output = "" \/ ~HasToken(command, source)) =>
              events[1].res = "false"
        /\ events[1].res = "true" => HasToken(command, source) /\ HasTrigger(output, source)

\* C12 witness: git was asked about a pip command whose output holds "error:"
C12_Witness ==
    /\ pc = "consulted"
    /\ source = "git"
    /\ HasToken(command, "pip") /\ ~HasToken(command, "git")
    /\ HasTrigger(output, "git")
    /\ events = << Event("Match", "git", "false") >>

\* ProcessError, called with the default registry on (cmd, out), has returned
DiagnosedByDefault(cmd, out) ==
    /\ Processing /\ pc = "done"
    /\ ~AppConfig.isNil /\ AppConfig.EnablePlugins = DefaultPlugins
    /\ command = cmd /\ output = out

\* the plugin matched, its Suggest gave fix, and ProcessError returned fix
CorrectedBy(plugin, fix) ==
    /\ \E i \in Matches : events[i].who = plugin /\ events[i].res = "true"
    /\ \E i \in Suggests : events[i].who = plugin /\ events[i].res = fix
    /\ ret = [suggestion |-> fix, err |-> "nil"]

\* C13: the four rule scenarios, through ProcessError with the default registry
C13_RuleScenarios ==
    /\ DiagnosedByDefault("sudo apt install rediscli", "E: Unable to locate package rediscli")
         => CorrectedBy("apt", "sudo apt install redis-tools")
    /\ DiagnosedByDefault("git checout main",
                          "git: 'checout' is not a git command. See 'git --help'.")
         => CorrectedBy("git", "git checkout main")
    /\ DiagnosedByDefault("docker ps",
                          "permission denied while trying to connect to the Docker daemon socket")
         => CorrectedBy("docker", "sudo docker ps")
    /\ DiagnosedByDefault("npm install expres",
                          "npm ERR! 404 Not Found - GET https://registry.npmjs.org/expres")
         => CorrectedBy("npm", "npm install express")

\* C13 witness: the docker scenario was diagnosed, after apt, npm and git declined
C13_Witness ==
    /\ DiagnosedByDefault("docker ps",
                          "permission denied while trying to connect to the Docker daemon socket")
    /\ Len(Consulted) = 4
    /\ ret.suggestion = "sudo docker ps"

\* the verb-typo table of each plugin (apt, pip and systemctl have none)
VerbTable(plugin) ==
    CASE plugin = "npm"    -> npmCorrections
      [] plugin = "git"    -> commandCorrections
      [] plugin = "docker" -> dockerCorrections
      [] OTHER             -> << >>

\* the entity-typo tables of each plugin
EntityTables(plugin) ==
    CASE plugin = "apt"       -> {aptCorrections}
      [] plugin = "npm"       -> {npmPackageCorrections}
      [] plugin = "docker"    -> {imageCorrections}
      [] plugin = "pip"       -> {pipPackageCorrections}
      [] plugin = "systemctl" -> {serviceCorrections}
      [] OTHER                -> {}

\* the subcommand, the token after the tool's name, is a key of the verb table
VerbHit(plugin, cmd) ==
    /\ Len(Fields(cmd)) >= 2
    /\ Fields(cmd)[1] = plugin
    /\ Fields(cmd)[2] \in DOMAIN VerbTable(plugin)

\* the position in cmd where its second token begins
SecondTokenStart(cmd) ==
    Least({i \in 2..Len(cmd) : /\ ~IsSpace(At(cmd, i)) /\ IsSpace(At(cmd, i - 1))
                               /\ \E j \in 1..(i - 1) : ~IsSpace(At(cmd, j))})

\* cmd with its subcommand replaced by the canonical form, nothing else touched
VerbCorrected(plugin, cmd) ==
    LET verb == Fields(cmd)[2]
        start == SecondTokenStart(cmd)
    IN  SubSeq(cmd, 1, start - 1) \o VerbTable(plugin)[verb]
          \o SubSeq(cmd, start + Len(verb), Len(cmd))

\* the output reports one of the high-signal conditions: permission denied,
\* lock held, stale index, not a repository
SituationalOutput(out) ==
    \E phrase \in {"permission denied", "could not get lock", "failed to fetch",
                   "not a git repository"} : Contains(ToLower(out), phrase)

\* the results of the first call of the plugin: its Match, its rules, its Suggest
Matched == IsMatch(events[1]) /\ events[1].res = "true"
RuleResult == events[2].res
Suggested == events[3].res

\* C14 (as claimed): when the subcommand hits the plugin's verb-typo table,
\* Suggest returns the command with that token alone replaced, white space
\* included
C14_OnlyTheVerbIsReplaced ==
    /\ pc = "consulted" /\ Matched
    /\ VerbHit(source, command) /\ ~SituationalOutput(output)
    => Suggested = VerbCorrected(source, command)

\* the commands made from cmd by replacing one token that is a key of one of
\* the plugin's typo tables by its canonical form, as token sequences
TypoSubstitutions(plugin, cmd) ==
    LET parts == Fields(cmd)
    IN  {[parts EXCEPT ![i] = table[parts[i]]] :
            <<i, table>> \in {x \in (1..Len(parts)) \X ({VerbTable(plugin)} \cup EntityTables(plugin)) :
                                parts[x[1]] \in DOMAIN x[2]}}

\* C15 (as claimed): when the output reports a situational condition and the
\* command holds a token of a typo table, the suggestion is the situational
\* remediation and not the typo substitution
C15_SituationalRulesFirst ==
    /\ pc = "consulted" /\ Matched
    /\ SituationalOutput(output)
    /\ TypoSubstitutions(source, command) # {}
    => Fields(Suggested) \notin TypoSubstitutions(source, command)

\* the first call rewrote the command by a typo rule: the command holds a key
\* of a typo table, no situational condition is reported, and the rules
\* returned a different command
TypoRuleFired ==
    /\ Matched
    /\ TypoSubstitutions(source, command) # {}
    /\ ~SituationalOutput(output)
    /\ RuleResult \notin {"", command}

\* C16 (as claimed): the plugin, called again on the corrected command with
\* the same output, leaves the corrected command as it is
C16_CorrectionIsIdempotent ==
    pc = "reconsulted" /\ TypoRuleFired /\ Len(events) = 6 =>
        events[5].res \in {"", RuleResult}

\* C17 (as claimed): the rules, evaluated twice on the same command and
\* output, return the same text
C17_RulesAreDeterministic ==
    pc = "repeated" => events[5].res = RuleResult

\* a call of ai.GetSuggestion that got as far as sending the HTTP request
IsRequest(e) ==
    IsBackendCall(e) /\ e.res # "failed to initialize AI client"

Requests == {i \in 1..Len(events) : IsRequest(events[i])}

\* C18 (as claimed): one diagnosis sends at most one request to the backend,
\* whether from a plugin's Suggest or from the engine's fallback
C18_OneRequestPerDiagnosis ==
    Cardinality(Requests) <= 1

\* the requests sent by the step that is being taken
NewRequests == {i \in (Len(events) + 1)..Len(events') : IsRequest(events'[i])}

\* C19 (as claimed): once the context handed to ProcessError is cancelled, a
\* request of that diagnosis is aborted, whoever started it, and the diagnosis
\* returns an error
C19_CancellationAbortsRequests ==
    [][(Processing /\ ctx = "cancelled") =>
          \A i \in NewRequests :
             /\ events'[i].res = "failed to make request"
             /\ pc' = "done"
             /\ ret'.err # "nil"]_vars

\* the first plugin of the registry that matches and whose rules give a fix
\* (0: there is none)
FirstResolving ==
    Least({k \in 1..Len(plugins) :
             /\ Match(plugins[k], command, output)
             /\ \E quickFix \in getQuickFix(plugins[k], command, output) : quickFix # ""})

\* C20: when a quick-fix rule of a plugin resolves the command and output,
\* ProcessError returns that rule's text with a nil error, and ai.GetSuggestion
\* is never called, whatever the credential and the provider are
C20_RulePathNeedsNoBackend ==
    (Processing /\ pc = "done" /\ FirstResolving # 0) =>
        /\ ret.err = "nil"
        /\ ret.suggestion \in
              getQuickFix(plugins[FirstResolving], command, output) \ {""}
        /\ BackendCalls = {}

(***************************************************************************)
(* The generative client (client_enhanced.go)                              *)
(***************************************************************************)
\* the failure conditions of the HTTP exchange: transport failure, a status
\* other than 200, an undecodable body, an empty candidate or choice list
ExchangeFails(reply) ==
    \/ ~reply.transport
    \/ reply.status # 200
    \/ ~reply.decodable
    \/ Len(reply.items) = 0

\* C21: each failure condition gives a non-nil error and the empty text, from
\* GetSuggestion and from GenerateSuggestion; the two backends return the same
\* suggestion for the same reply text
C21_FailuresAreErrors ==
    /\ (pc = "asked" /\ (\/ NoCredential
                         \/ (IF AppConfig.isNil THEN environ.AI_PROVIDER
                              ELSE AppConfig.AIProvider) \notin {"", "gemini", "openai"}
                         \/ ExchangeFails(events[1].res))) =>
           events[2].res # "nil" /\ suggestion = ""
    /\ (pc = "generated" /\ (source = "local" \/ ExchangeFails(events[1].res))) =>
           events[2].res # "nil" /\ suggestion = ""
    /\ (pc = "compared" /\ events[2].res = "nil" /\ events[3].res = "nil") =>
           ret.suggestion = suggestion
    /\ (pc = "compared" /\ ExchangeFails(events[1].res)) =>
           events[3].res # "nil" /\ ret.suggestion = ""

C21_Witness ==
    /\ pc = "compared"
    /\ events[2].res = "nil" /\ events[3].res = "nil"
    /\ suggestion = "sudo apt update"

\* the tool names of the six plugins and the elevated-privilege prefix
ToolKeywords ==
    {"sudo", "apt", "npm", "git", "docker", "pip", "systemctl"}

\* C22 (as claimed): extractCommand returns the first line that is not empty,
\* not a fence, not prose and holds sudo or the name of a supported tool;
\* failing that the first non-empty line that is not a fence; and the raw
\* reply only when the reply is empty
C22_ExtractCommand ==
    pc = "extracted" =>
        LET raw == Split(output, "\n")
            lines == [i \in 1..Len(raw) |-> TrimSpace(raw[i])]
            cmds == {i \in 1..Len(lines) :
                       /\ lines[i] # "" /\ ~HasPrefix(lines[i], codeFence)
                       /\ ~(\E m \in proseMarkers : HasPrefix(lines[i], m))
                       /\ \E k \in ToolKeywords : Contains(lines[i], k)}
            plain == {i \in 1..Len(lines) : lines[i] # "" /\ ~HasPrefix(lines[i], codeFence)}
        IN  /\ cmds # {} => suggestion = lines[Least(cmds)]
            /\ (cmds = {} /\ plain # {}) => suggestion = lines[Least(plain)]
            /\ (cmds = {} /\ plain = {}) => (suggestion = output /\ output = "")

(***************************************************************************)
(* Concurrent ProcessError calls on one Engine (TestConcurrentProcessing)  *)
(***************************************************************************)
NumWorkers == 2

\* inputs of TestConcurrentProcessing, and one that no rule resolves
ConcurrentCommands ==
    { Case("sudo apt install rediscli", "E: Unable to locate package rediscli"),
      Case("git checout main", "git: 'checout' is not a git command"),
      Case("docker run ubntu", "Unable to find image 'ubntu:latest' locally"),
      Case("sudo apt install foo", "E: Unable to locate package foo") }

\* eng := engine.New(); no call has started. Each call has its own command,
\* output, loop position and result: they are parameters and locals of
\* ProcessError, one cell per goroutine
ConcInit ==
    /\ \E s \in Settings :
         /\ ~s.config.isNil /\ ~s.config.AutoConfirm
         /\ s.config.EnablePlugins = DefaultPlugins /\ s.config.AIProvider = "gemini"
         /\ AppConfig = s.config /\ environ = s.environ
    /\ ctx = "live"
    /\ call = "ProcessError"
    /\ plugins = LoadAllPlugins(AppConfig)
    /\ pc = [w \in 1..NumWorkers |-> "idle"]
    /\ command = [w \in 1..NumWorkers |-> ""]
    /\ output = [w \in 1..NumWorkers |-> ""]
    /\ idx = [w \in 1..NumWorkers |-> 0]
    /\ ret = [w \in 1..NumWorkers |-> [suggestion |-> "", err |-> "nil"]]
    /\ stdout = ""
    /\ stderr = ""
    /\ err = "nil"
    /\ suggestion = ""
    /\ source = ""
    /\ events = <<>>

\* bug: the loop position is a field of the Engine, shared by all calls
Cursor_shared(w) ==
    1

\* the cell that holds the loop position of call w: its own local variable
Cursor(w) ==
    w

\* goroutine w calls eng.ProcessError(ctx, cmd.command, cmd.output)
Enter(w) ==
    /\ pc[w] = "idle"
    /\ \E c \in ConcurrentCommands :
         /\ command' = [command EXCEPT ![w] = c.command]
         /\ output' = [output EXCEPT ![w] = c.output]
    /\ pc' = [pc EXCEPT ![w] = "plugins"]
    /\ idx' = [idx EXCEPT ![Cursor(w)] = 1]
    /\ UNCHANGED << AppConfig, environ, ctx, call, plugins, stdout, stderr, err,
                    suggestion, source, events, ret >>

\* one iteration of the plugin loop of call w
Iterate(w) ==
    /\ pc[w] = "plugins"
    /\ idx[Cursor(w)] <= Len(plugins)
    /\ LET plugin == plugins[idx[Cursor(w)]]
       IN  IF ~Match(plugin, command[w], output[w])
           THEN /\ idx' = [idx EXCEPT ![Cursor(w)] = @ + 1]
                /\ UNCHANGED << pc, ret >>
           ELSE \E quickFix \in getQuickFix(plugin, command[w], output[w]),
                   reply \in BackendReplies :
                  LET ai == GetSuggestion(AppConfig, environ, Do(Background, reply))
                      s == Suggest(plugin, command[w], quickFix, ai)
                  IN  IF ~suggestionFound(s)
                      THEN /\ idx' = [idx EXCEPT ![Cursor(w)] = @ + 1]
                           /\ UNCHANGED << pc, ret >>
                      ELSE /\ pc' = [pc EXCEPT ![w] = "done"]
                           /\ ret' = [ret EXCEPT ![w] = [suggestion |-> s, err |-> "nil"]]
                           /\ UNCHANGED idx
    /\ UNCHANGED << AppConfig, environ, ctx, call, plugins, command, output, stdout,
                    stderr, err, suggestion, source, events >>

\* the result of the engine's own ai.GetSuggestion
fallbackResult(ai) ==
    IF ai.err # "nil"
    THEN [suggestion |-> "", err |-> "failed to get AI suggestion: " \o ai.err]
    ELSE [suggestion |-> ai.text, err |-> "nil"]

\* after the loop of call w: the engine's own ai.GetSuggestion
Finish(w) ==
    /\ pc[w] = "plugins"
    /\ idx[Cursor(w)] > Len(plugins)
    /\ \E reply \in BackendReplies :
         ret' = [ret EXCEPT ![w] =
                    fallbackResult(GetSuggestion(AppConfig, environ, Do(ctx, reply)))]
    /\ pc' = [pc EXCEPT ![w] = "done"]
    /\ UNCHANGED << AppConfig, environ, ctx, call, plugins, command, output, stdout,
                    stderr, err, idx, suggestion, source, events >>

ConcNext ==
    \E w \in 1..NumWorkers : Enter(w) \/ Iterate(w) \/ Finish(w)

ConcSpec == ConcInit /\ [][ConcNext]_vars

\* what ProcessError(cmd, out) can return when it runs alone, from plugin k on
RECURSIVE Alone(_, _, _)
Alone(k, cmd, out) ==
    IF k > Len(plugins)
    THEN {fallbackResult(GetSuggestion(AppConfig, environ, reply)) :
             reply \in BackendReplies}
    ELSE IF ~Match(plugins[k], cmd, out)
    THEN Alone(k + 1, cmd, out)
    ELSE UNION { LET s == Suggest(plugins[k], cmd, c[1],
                                  GetSuggestion(AppConfig, environ, c[2]))
                 IN  IF suggestionFound(s)
                     THEN {[suggestion |-> s, err |-> "nil"]}
                     ELSE Alone(k + 1, cmd, out) :
                 c \in getQuickFix(plugins[k], cmd, out) \X BackendReplies }

\* C23: while calls of ProcessError on one Engine interleave, the registry
\* stays what construction loaded, the loop position of each call is the one
\* its own steps have set, and each call returns what it can return when it
\* runs alone
C23_CallsDoNotInterfere ==
    /\ plugins = LoadAllPlugins(AppConfig)
    /\ \A w \in 1..NumWorkers :
          /\ pc[w] = "done" => ret[w] \in Alone(1, command[w], output[w])
          /\ pc[w] = "idle" => idx[w] = 0
          /\ pc[w] # "idle" => idx[w] \in 1..(Len(plugins) + 1)

C23_Witness ==
    /\ \A w \in 1..NumWorkers : pc[w] = "done"
    /\ ret[1].suggestion = "sudo apt install redis-tools"
    /\ ret[2].suggestion = "git checkout main"

(***************************************************************************)
(* Rules against the test tables                                           *)
(***************************************************************************)
\* C24 (as claimed): on an apt command whose output reports a stale package
\* index, AptPlugin.Match is true and Suggest returns "sudo apt update && "
\* followed by the command
C24_StaleIndexIsMatched ==
    (pc = "consulted" /\ source = "apt" /\ HasToken(command, "apt")
       /\ (Contains(ToLower(output), "404") \/ Contains(ToLower(output), "failed to fetch"))
       /\ ~Contains(ToLower(output), "could not get lock")
       /\ ~Contains(ToLower(output), "permission denied")) =>
        /\ Matched
        /\ Suggested = "sudo apt update && " \o command

\* C25 (as claimed): for each misspelling of the test table, with the output
\* "is not a git command", GitPlugin.Suggest returns the command with the
\* subcommand in its canonical form and the arguments unchanged
C25_GitTyposAreCorrected ==
    (pc = "consulted" /\ source = "git") =>
        \A i \in 1..Len(GitTypoTests) :
            (command = GitTypoTests[i][1] /\ Contains(output, "is not a git command")) =>
                Matched /\ Suggested = GitTypoTests[i][3]

\* C26 (as claimed): on a git merge or rebase that reports a merge conflict,
\* GitPlugin.Match is true and ProcessError returns a non-empty suggestion
C26_MergeConflictIsDiagnosed ==
    (Processing /\ pc = "done" /\ (HasPrefix(command, "git merge") \/ HasPrefix(command, "git rebase"))
       /\ Contains(output, "CONFLICT (content): Merge conflict in")
       /\ "git" \in Range(plugins)) =>
        /\ \E i \in Matches : events[i].who = "git" /\ events[i].res = "true"
        /\ ret.suggestion # ""

(***************************************************************************)
(* The monitor (ExecuteWithMonitoring)                                     *)
(***************************************************************************)
\* C27 (as claimed): the output handed to handleError is the captured
\* standard error when it is not empty and the captured standard output
\* otherwise, whether the command failed or not; an error indicator on the
\* standard error of a command that succeeded leads to a diagnosis
C27_DiagnosisReadsPreferredStream ==
    Monitoring =>
        /\ \A i \in Diagnoses : events[i].res = (IF stderr # "" THEN stderr ELSE stdout)
        /\ (err = "nil" /\ detectError(stderr)) => Diagnoses # {}

\* C28 (as claimed): a non-empty suggestion of a plugin's Suggest is never the
\* original command
C28_SuggestionDiffersFromCommand ==
    (pc = "consulted" /\ Matched /\ Suggested # "") => Suggested # command

\* C29 (as claimed): when a typo rule corrects the command, the plugin also
\* matches the command with "sudo " before it, and Suggest returns "sudo "
\* followed by the corrected command
C29_CorrectionIgnoresSudo ==
    (pc = "elevated" /\ TypoRuleFired) =>
        /\ Len(events) = 6
        /\ events[4].res = "true"
        /\ events[6].res = "sudo " \o RuleResult

\* C30: when the original command exits zero, ExecuteWithMonitoring returns
\* nil, whatever its output holds, whatever the diagnosis yields and whether
\* a confirmed corrective command succeeds or fails
C30_SuccessReturnsNil ==
    (Monitoring /\ pc = "done" /\ err = "nil") => ret.err = "nil"

\* C30 witness: the command succeeded, its output was diagnosed, and the
\* corrective command was run and failed
C30_Witness ==
    /\ Monitoring /\ pc = "done" /\ err = "nil"
    /\ Diagnoses # {}
    /\ \E i \in FixRuns : events[i].res # "nil"
    /\ ret.err = "nil"
====
